---- MODULE Spec2Model ----
(***************************************************************************)
(* RotatedVec (src/src/lib.rs): a vector stored as a sequence of           *)
(* subarrays of sizes 1, 2, 3, ... each of which may be rotated.           *)
(*                                                                         *)
(*   data           the backing Vec<T>          (0-based in the source,    *)
(*   start_indexes  one pivot offset per subarray  1-based sequences here) *)
(*                                                                         *)
(* Every method is a pure operator from the fields (d, s) to a result      *)
(* record [data, si, ret, panic]; ret is <<>> for None / unit and <<x>>    *)
(* for a returned element.  dbg tells whether the build checks             *)
(* debug_assert! and arithmetic overflow (a debug build) or not (release). *)
(*                                                                         *)
(* A usize that has wrapped below zero is written as the negative integer  *)
(* congruent to it (usize::MAX is -1): the two's complement reading, with  *)
(* comparisons taken as unsigned.                                          *)
(***************************************************************************)
EXTENDS Integers, Sequences, FiniteSets, TLC

VARIABLES data, start_indexes, debug, status, h, script, cursor

vars == <<data, start_indexes, debug, status, h, script, cursor>>

\* ---------------------------------------------------------------- bounds
MaxLen == 7
MaxScenario == 10
MaxOther == 3
MaxExtend == 2
MaxIterLen == 4
MaxIterCalls == 6
MaxSkip == 2
\* the index maths is applied to the positions 0..MaxPosition and to the
\* MaxPosition + 1 positions from the first one whose 8p + 1 does not fit
\* 32 bits
MaxPosition == 30
Values == {0, 1}

\* ------------------------------------------------------------------ usize
\* unsigned a < b, a <= b on the two's complement reading
ULt(a, b) ==
    IF a >= 0 /\ b >= 0 THEN a < b
    ELSE IF a >= 0 THEN TRUE
    ELSE IF b >= 0 THEN FALSE
    ELSE a < b
ULe(a, b) == a = b \/ ULt(a, b)

\* a - b and a + b on usize: a debug build panics on overflow, a release
\* build wraps
USub(a, b, dbg) == [val |-> a - b, panic |-> dbg /\ ULt(a, b)]
UAdd(a, b, dbg) == [val |-> a + b, panic |-> dbg /\ ULt(a + b, a)]

\* ------------------------------------------------------- Vec<T> / slices
At(s, i) == s[i + 1]
Upd(s, i, v) == [s EXCEPT ![i + 1] = v]
Take(s, n) == SubSeq(s, 1, n)
Drop(s, n) == SubSeq(s, n + 1, Len(s))
VecInsert(s, i, v) == Take(s, i) \o <<v>> \o Drop(s, i)
VecRemove(s, i) == Take(s, i) \o Drop(s, i + 1)
\* slice.copy_within(a..b, dest) on the slice of s that starts at base
CopyWithin(s, base, a, b, dest) ==
    [j \in 1..Len(s) |->
        IF j - 1 >= base + dest /\ j - 1 < base + dest + (b - a)
        THEN s[(j - 1) - dest + a + 1]
        ELSE s[j]]
\* s[lo..hi].rotate_left(mid)
RotateLeft(s, lo, hi, mid) ==
    [j \in 1..Len(s) |->
        IF j - 1 >= lo /\ j - 1 < hi
        THEN s[lo + (((j - 1 - lo) + mid) % (hi - lo)) + 1]
        ELSE s[j]]
Resize(s, n, v) == [j \in 1..n |-> IF j <= Len(s) THEN s[j] ELSE v]
Zeros(n) == [j \in 1..n |-> 0]

None == <<>>
Some(x) == <<x>>
Result(d, s, r) == [data |-> d, si |-> s, ret |-> r, panic |-> FALSE]
Panic(d, s) == [data |-> d, si |-> s, ret |-> None, panic |-> TRUE]

\* ------------------------------------------------------------ index maths
\* line 891, (n * 8 + 1) as u32: the cast keeps the low 32 bits, which are
\* 8 * (n mod U32Positions) + 1, as 8 * U32Positions = 2^32 (a length that
\* wrapped below zero is read modulo U32Positions as well).
U32Positions == 536870912

integer_sum(n) == (n * (n + 1)) \div 2

\* lines 888-892: ((f64::from((n * 8 + 1) as u32).sqrt() as usize) - 1) / 2.
\* With r = n mod 536870912 (U32Positions) the cast gives m = 8r + 1.  A u32
\* is exact in an f64 and the square root of a 32-bit value is never rounded
\* up to the next integer, so sqrt() as usize is the greatest c with
\* c * c <= m, and (c - 1) / 2 is the greatest a with (2a + 1)^2 <= 8r + 1,
\* that is the a with a(a + 1) <= 2r <= (a + 1)(a + 2) - 1 = a(a + 3) + 1,
\* which is at most r.  (m itself can exceed the largest integer TLC
\* handles, hence the form in 2r.)
integer_sum_inverse(n) ==
    CHOOSE a \in 0..(n % 536870912) :
        2 * (n % 536870912) \in (a * (a + 1))..(a * (a + 3) + 1)

get_subarray_idx_from_array_idx(idx) ==
    IF idx = 0 THEN 0 ELSE integer_sum_inverse(idx)

get_array_idx_from_subarray_idx(idx) ==
    IF idx = 0 THEN 0 ELSE integer_sum(idx)

is_last_subarray_full(d, s) ==
    Len(d) = get_array_idx_from_subarray_idx(Len(s))

\* get_real_index reads start_indexes[subarray_idx]: an out-of-range read
\* panics.  (start_indexes.len() - 1 underflows only on an empty table,
\* where that read panics in either build.)
get_real_index_panics(d, s, index) ==
    get_subarray_idx_from_array_idx(index) >= Len(s)

\* a slip in lines 876-878: the pivot offset of the subarray is ignored
get_real_index_ignoring_pivot(d, s, index) == index

get_real_index(d, s, index) ==
    LET subarray_idx == get_subarray_idx_from_array_idx(index)
        subarray_start_idx == get_array_idx_from_subarray_idx(subarray_idx)
        subarray_len == IF subarray_idx = Len(s) - 1
                        THEN Len(d) - subarray_start_idx
                        ELSE subarray_idx + 1
        idx_offset == index - subarray_start_idx
        pivot_offset == At(s, subarray_idx)
        rotated_offset == (pivot_offset + idx_offset) % subarray_len
    IN  subarray_start_idx + rotated_offset

\* get(index): None out of range, else data[real_idx] (which panics when
\* real_idx is not a slot of data)
get_panics(d, s, index) ==
    /\ ULt(index, Len(d))
    /\ \/ get_real_index_panics(d, s, index)
       \/ get_real_index(d, s, index) >= Len(d)

get(d, s, index) ==
    IF ~ULt(index, Len(d)) THEN None
    ELSE Some(At(d, get_real_index(d, s, index)))

get_mut_at_slot(d, s, index) ==
    IF ~ULt(index, Len(d)) THEN None ELSE Some(At(d, index))

\* lines 182-188: the same lookup, for a mutable reference
get_mut(d, s, index) ==
    IF ~ULt(index, Len(d)) THEN None
    ELSE Some(At(d, get_real_index(d, s, index)))

\* lines 1017-1019 and 1027-1029: Index / IndexMut, get(index).expect(..)
index_panics(d, s, index) ==
    get_panics(d, s, index) \/ get(d, s, index) = None

Index_index(d, s, index_) ==
    IF index_panics(d, s, index_) THEN Panic(d, s)
    ELSE Result(d, s, get(d, s, index_))

index_mut(d, s, index_) ==
    IF get_panics(d, s, index_) \/ get_mut(d, s, index_) = None THEN Panic(d, s)
    ELSE Result(d, s, get_mut(d, s, index_))

swap_ignoring_bounds(d, s, a, b) ==
    IF a < Len(d) /\ b < Len(d)
    THEN Result(Upd(Upd(d, a, At(d, b)), b, At(d, a)), s, None)
    ELSE Result(d, s, None)

swap_logical(d, s, a, b) ==
    IF ~ULt(a, Len(d)) \/ ~ULt(b, Len(d)) THEN Panic(d, s)
    ELSE LET x == get_real_index(d, s, a)
             y == get_real_index(d, s, b)
         IN  Result(Upd(Upd(d, x, At(d, y)), y, At(d, x)), s, None)

\* lines 212-214: self.data.swap(a, b), which panics out of bounds
swap(d, s, a, b) ==
    IF ~ULt(a, Len(d)) \/ ~ULt(b, Len(d)) THEN Panic(d, s)
    ELSE Result(Upd(Upd(d, a, At(d, b)), b, At(d, a)), s, None)

\* the logical content: get(0), get(1), ..., get(len-1)
LogicalOk(d, s) == \A i \in 0..(Len(d) - 1) : ~get_panics(d, s, i)
Logical(d, s) == [j \in 1..Len(d) |-> get(d, s, j - 1)[1]]

assert_invariants(d, s) ==
    LET expected_start_indexes_len ==
            IF Len(d) = 0 THEN 0
            ELSE get_subarray_idx_from_array_idx(Len(d) - 1) + 1
    IN  /\ Len(s) = expected_start_indexes_len
        /\ \A idx \in 0..(Len(s) - 1) : At(s, idx) <= idx

\* ----------------------------------------------------------------- insert
\* a slip in lines 595-602: the element is written at the insertion point
\* and nothing is shifted
insert_rotate_without_shift(d, s, subarray_idx, insert_idx, element) ==
    LET next_subarray_offset == get_array_idx_from_subarray_idx(subarray_idx + 1)
    IN  IF next_subarray_offset > Len(d) \/ subarray_idx >= Len(s)
        THEN [data |-> d, si |-> s, carry |-> 0, panic |-> TRUE]
        ELSE [data |-> Upd(d, insert_idx, element), si |-> s,
              carry |-> At(d, insert_idx), panic |-> FALSE]

\* lines 579-602: the local rotate-insert on the full subarray subarray_idx;
\* carry is the element pushed out of its logical end (prev_end_elem)
insert_rotate(d, s, subarray_idx, insert_idx, element) ==
    LET subarray_offset == get_array_idx_from_subarray_idx(subarray_idx)
        next_subarray_offset == get_array_idx_from_subarray_idx(subarray_idx + 1)
        subarray_len == next_subarray_offset - subarray_offset
    IN  IF next_subarray_offset > Len(d) \/ subarray_idx >= Len(s)
        THEN [data |-> d, si |-> s, carry |-> 0, panic |-> TRUE]
        ELSE
        LET pivot_offset == At(s, subarray_idx)
            insert_offset == insert_idx - subarray_offset
            end_offset == IF pivot_offset = 0 THEN subarray_len - 1
                          ELSE pivot_offset - 1
            prev_end_elem == At(d, subarray_offset + end_offset)
        IN  IF end_offset < pivot_offset /\ insert_offset >= pivot_offset
            THEN [data |-> Upd(CopyWithin(d, subarray_offset, pivot_offset,
                                          insert_offset, end_offset),
                               subarray_offset + insert_offset - 1, element),
                  si |-> Upd(s, subarray_idx, end_offset),
                  carry |-> prev_end_elem, panic |-> FALSE]
            ELSE IF insert_offset > end_offset
            THEN [data |-> d, si |-> s, carry |-> prev_end_elem, panic |-> TRUE]
            ELSE [data |-> Upd(CopyWithin(d, subarray_offset, insert_offset,
                                          end_offset, insert_offset + 1),
                               subarray_offset + insert_offset, element),
                  si |-> s,
                  carry |-> prev_end_elem, panic |-> FALSE]

\* a slip in line 622: the carried element is written over the logical
\* last one, and the pivot of the subarray is left where it was
RECURSIVE insert_cascade_keeping_pivot(_, _, _, _, _, _)
insert_cascade_keeping_pivot(d, s, cur, max_subarray_idx, last_subarray_full, prev_end_elem) ==
    IF cur > max_subarray_idx
       \/ (cur = max_subarray_idx /\ ~last_subarray_full)
    THEN [data |-> d, si |-> s, carry |-> prev_end_elem, panic |-> FALSE]
    ELSE
    LET end_offset == IF At(s, cur) = 0 THEN cur ELSE At(s, cur) - 1
        end_idx == end_offset + get_array_idx_from_subarray_idx(cur)
    IN  IF end_idx >= Len(d)
        THEN [data |-> d, si |-> s, carry |-> prev_end_elem, panic |-> TRUE]
        ELSE insert_cascade_keeping_pivot(Upd(d, end_idx, prev_end_elem), s,
                                          cur + 1, max_subarray_idx,
                                          last_subarray_full, At(d, end_idx))

\* lines 608-624: the loop over the following subarrays, from cur on
RECURSIVE insert_cascade(_, _, _, _, _, _)
insert_cascade(d, s, cur, max_subarray_idx, last_subarray_full, prev_end_elem) ==
    IF cur > max_subarray_idx
       \/ (cur = max_subarray_idx /\ ~last_subarray_full)
    THEN [data |-> d, si |-> s, carry |-> prev_end_elem, panic |-> FALSE]
    ELSE
    LET end_offset == IF At(s, cur) = 0 THEN cur ELSE At(s, cur) - 1
        end_idx == end_offset + get_array_idx_from_subarray_idx(cur)
    IN  IF end_idx >= Len(d)
        THEN [data |-> d, si |-> s, carry |-> prev_end_elem, panic |-> TRUE]
        ELSE insert_cascade(Upd(d, end_idx, prev_end_elem),
                            Upd(s, cur, end_offset),
                            cur + 1, max_subarray_idx, last_subarray_full,
                            At(d, end_idx))

\* a slip in lines 629-633: the carried element is pushed at the end of the
\* partial last subarray instead of being inserted at its front
insert_finish_at_end(d, s, max_subarray_idx, last_subarray_full, prev_end_elem, dbg) ==
    Result(Append(d, prev_end_elem),
           IF last_subarray_full THEN Append(s, 0) ELSE s, None)

\* a slip in lines 629-631: the carried element opens a new subarray, and
\* no entry is pushed for it
insert_finish_without_entry(d, s, max_subarray_idx, last_subarray_full, prev_end_elem, dbg) ==
    IF last_subarray_full THEN Result(Append(d, prev_end_elem), s, None)
    ELSE LET max_subarray_offset ==
                 get_array_idx_from_subarray_idx(max_subarray_idx)
         IN  IF max_subarray_offset > Len(d) THEN Panic(d, s)
             ELSE Result(VecInsert(d, max_subarray_offset, prev_end_elem), s, None)

\* lines 626-635: the carried element goes to a new subarray or to the
\* front of the partial last one
insert_finish(d, s, max_subarray_idx, last_subarray_full, prev_end_elem, dbg) ==
    IF last_subarray_full
    THEN LET d2 == Append(d, prev_end_elem)
             s2 == Append(s, 0)
         IN  IF dbg /\ ~assert_invariants(d2, s2) THEN Panic(d2, s2)
             ELSE Result(d2, s2, None)
    ELSE LET max_subarray_offset ==
                 get_array_idx_from_subarray_idx(max_subarray_idx)
         IN  IF max_subarray_offset > Len(d) THEN Panic(d, s)
             ELSE LET d2 == VecInsert(d, max_subarray_offset, prev_end_elem)
                  IN  IF dbg /\ ~assert_invariants(d2, s) THEN Panic(d2, s)
                      ELSE Result(d2, s, None)

insert(d, s, index, element, dbg) ==
    IF index > Len(d) THEN Panic(d, s)
    ELSE IF index < Len(d) /\ get_real_index_panics(d, s, index) THEN Panic(d, s)
    ELSE
    LET insert_idx == IF index < Len(d) THEN get_real_index(d, s, index)
                      ELSE Len(d)
        subarray_idx == get_subarray_idx_from_array_idx(insert_idx)
    IN  IF subarray_idx > Len(s) THEN Panic(d, s)
        ELSE
        LET s1 == IF subarray_idx = Len(s) THEN Append(s, 0) ELSE s
        IN  IF subarray_idx = Len(s1) - 1 /\ ~is_last_subarray_full(d, s1)
            THEN IF dbg /\ At(s1, subarray_idx) # 0 THEN Panic(d, s1)
                 ELSE IF insert_idx > Len(d) THEN Panic(d, s1)
                 ELSE LET d2 == VecInsert(d, insert_idx, element)
                      IN  IF dbg /\ ~assert_invariants(d2, s1) THEN Panic(d2, s1)
                          ELSE Result(d2, s1, None)
            ELSE
            LET r == insert_rotate(d, s1, subarray_idx, insert_idx, element)
            IN  IF r.panic THEN Panic(r.data, r.si)
                ELSE IF dbg /\ ~assert_invariants(r.data, r.si)
                THEN Panic(r.data, r.si)
                ELSE
                LET max_subarray_idx == Len(r.si) - 1
                    last_subarray_full == is_last_subarray_full(r.data, r.si)
                    c == insert_cascade(r.data, r.si, subarray_idx + 1,
                                        max_subarray_idx, last_subarray_full,
                                        r.carry)
                IN  IF c.panic THEN Panic(c.data, c.si)
                    ELSE insert_finish(c.data, c.si, max_subarray_idx,
                                       last_subarray_full, c.carry, dbg)

push(d, s, value, dbg) == insert(d, s, Len(d), value, dbg)

\* ----------------------------------------------------------------- remove
\* a slip in lines 673-683: the full last subarray is left rotated
remove_leaving_last_rotated(d, s, max_subarray_idx) == [data |-> d, si |-> s]

\* a slip in lines 673-683: the start index of the subarray before the last
\* one is reset as well
remove_unrotate_last_and_previous(d, s, max_subarray_idx) ==
    LET max_subarray_offset == get_array_idx_from_subarray_idx(max_subarray_idx)
        s0 == IF max_subarray_idx > 0 THEN Upd(s, max_subarray_idx - 1, 0) ELSE s
    IN  IF is_last_subarray_full(d, s)
        THEN [data |-> RotateLeft(d, max_subarray_offset, Len(d),
                                  At(s, max_subarray_idx)),
              si |-> Upd(s0, max_subarray_idx, 0)]
        ELSE [data |-> d, si |-> s0]

\* lines 673-683: a full last subarray is un-rotated before it shrinks
remove_unrotate_last(d, s, max_subarray_idx) ==
    LET max_subarray_offset == get_array_idx_from_subarray_idx(max_subarray_idx)
    IN  IF is_last_subarray_full(d, s)
        THEN [data |-> RotateLeft(d, max_subarray_offset, Len(d),
                                  At(s, max_subarray_idx)),
              si |-> Upd(s, max_subarray_idx, 0)]
        ELSE [data |-> d, si |-> s]

\* lines 687-715: the "hard exchange" in the full subarray subarray_idx;
\* hole is the offset in it of the slot left free (prev_end_offset)
remove_rotate(d, s, subarray_idx, remove_idx) ==
    LET subarray_offset == get_array_idx_from_subarray_idx(subarray_idx)
        next_subarray_offset == get_array_idx_from_subarray_idx(subarray_idx + 1)
        subarray_len == next_subarray_offset - subarray_offset
    IN  IF next_subarray_offset > Len(d)
        THEN [data |-> d, si |-> s, hole |-> 0, panic |-> TRUE]
        ELSE
        LET pivot_offset == At(s, subarray_idx)
            remove_offset == remove_idx - subarray_offset
            end_offset == IF pivot_offset = 0 THEN subarray_len - 1
                          ELSE pivot_offset - 1
        IN  IF end_offset < pivot_offset /\ remove_offset >= pivot_offset
            THEN [data |-> CopyWithin(d, subarray_offset, pivot_offset,
                                      remove_offset, pivot_offset + 1),
                  si |-> Upd(s, subarray_idx,
                             IF pivot_offset = subarray_len - 1 THEN 0
                             ELSE pivot_offset + 1),
                  hole |-> pivot_offset, panic |-> FALSE]
            ELSE IF remove_offset > end_offset
            THEN [data |-> d, si |-> s, hole |-> 0, panic |-> TRUE]
            ELSE [data |-> CopyWithin(d, subarray_offset, remove_offset + 1,
                                      end_offset + 1, remove_offset),
                  si |-> s,
                  hole |-> end_offset, panic |-> FALSE]

\* a slip in lines 729-734: the new start offset does not wrap to 0 when the
\* pivot is at the last slot of the subarray
RECURSIVE remove_cascade_without_wrap(_, _, _, _, _)
remove_cascade_without_wrap(d, s, cur, max_subarray_idx, prev_end_offset) ==
    IF cur >= max_subarray_idx
    THEN [data |-> d, si |-> s, hole |-> prev_end_offset, panic |-> FALSE]
    ELSE
    LET cur_subarray_offset == get_array_idx_from_subarray_idx(cur)
        prev_end_idx == prev_end_offset + get_array_idx_from_subarray_idx(cur - 1)
        pivot == At(s, cur)
    IN  IF cur_subarray_offset + pivot >= Len(d) \/ prev_end_idx >= Len(d)
        THEN [data |-> d, si |-> s, hole |-> prev_end_offset, panic |-> TRUE]
        ELSE remove_cascade_without_wrap(
                 Upd(d, prev_end_idx, At(d, cur_subarray_offset + pivot)),
                 Upd(s, cur, pivot + 1),
                 cur + 1, max_subarray_idx, pivot)

\* lines 719-735: the "easy exchange" in the subarrays cur .. max - 1
RECURSIVE remove_cascade(_, _, _, _, _)
remove_cascade(d, s, cur, max_subarray_idx, prev_end_offset) ==
    IF cur >= max_subarray_idx
    THEN [data |-> d, si |-> s, hole |-> prev_end_offset, panic |-> FALSE]
    ELSE
    LET cur_subarray_offset == get_array_idx_from_subarray_idx(cur)
        prev_end_idx == prev_end_offset + get_array_idx_from_subarray_idx(cur - 1)
        pivot == At(s, cur)
    IN  IF cur_subarray_offset + pivot >= Len(d) \/ prev_end_idx >= Len(d)
        THEN [data |-> d, si |-> s, hole |-> prev_end_offset, panic |-> TRUE]
        ELSE remove_cascade(Upd(d, prev_end_idx, At(d, cur_subarray_offset + pivot)),
                            Upd(s, cur, IF pivot = cur THEN 0 ELSE pivot + 1),
                            cur + 1, max_subarray_idx, pivot)

\* a slip in lines 747-749: the entry of a last subarray that became empty
\* is never popped from the index table
remove_finish_keeping_entry(d, s, max_subarray_idx, max_subarray_remove_idx, old_len, dbg) ==
    IF max_subarray_remove_idx >= Len(d) THEN Panic(d, s)
    ELSE Result(VecRemove(d, max_subarray_remove_idx), s,
                Some(At(d, max_subarray_remove_idx)))

\* lines 745-752: the last subarray shrinks by one slot
remove_finish(d, s, max_subarray_idx, max_subarray_remove_idx, old_len, dbg) ==
    IF max_subarray_remove_idx >= Len(d) THEN Panic(d, s)
    ELSE
    LET element == At(d, max_subarray_remove_idx)
        d2 == VecRemove(d, max_subarray_remove_idx)
        s2 == IF get_array_idx_from_subarray_idx(max_subarray_idx) = Len(d2)
              THEN Take(s, Len(s) - 1) ELSE s
    IN  IF dbg /\ ~(Len(d2) = old_len - 1 /\ assert_invariants(d2, s2))
        THEN Panic(d2, s2)
        ELSE Result(d2, s2, Some(element))

remove(d, s, index, dbg) ==
    IF index >= Len(d) THEN Panic(d, s)
    ELSE IF get_real_index_panics(d, s, index) THEN Panic(d, s)
    ELSE
    LET remove_idx0 == get_real_index(d, s, index)
        max_subarray_idx == Len(s) - 1
        max_subarray_offset == get_array_idx_from_subarray_idx(max_subarray_idx)
        subarray_idx == get_subarray_idx_from_array_idx(remove_idx0)
    IN  IF dbg /\ subarray_idx > max_subarray_idx THEN Panic(d, s)
        ELSE IF is_last_subarray_full(d, s) /\ At(s, max_subarray_idx) > Len(d) - max_subarray_offset
        THEN Panic(d, s)
        ELSE
        LET u == remove_unrotate_last(d, s, max_subarray_idx)
            remove_idx == IF is_last_subarray_full(d, s)
                             /\ subarray_idx = max_subarray_idx
                          THEN get_real_index(u.data, u.si, index)
                          ELSE remove_idx0
            max_subarray_remove_idx == IF subarray_idx = max_subarray_idx
                                       THEN remove_idx
                                       ELSE max_subarray_offset
        IN  IF subarray_idx < max_subarray_idx
            THEN LET r == remove_rotate(u.data, u.si, subarray_idx, remove_idx)
                 IN  IF r.panic THEN Panic(r.data, r.si)
                     ELSE
                     LET c == remove_cascade(r.data, r.si, subarray_idx + 1,
                                             max_subarray_idx, r.hole)
                     IN  IF c.panic THEN Panic(c.data, c.si)
                         ELSE
                         LET prev_end_idx ==
                                 c.hole + get_array_idx_from_subarray_idx(max_subarray_idx - 1)
                         IN  IF max_subarray_offset >= Len(c.data)
                                \/ prev_end_idx >= Len(c.data)
                             THEN Panic(c.data, c.si)
                             ELSE remove_finish(
                                      Upd(c.data, prev_end_idx,
                                          At(c.data, max_subarray_offset)),
                                      c.si, max_subarray_idx,
                                      max_subarray_remove_idx, Len(d), dbg)
            ELSE remove_finish(u.data, u.si, max_subarray_idx,
                               max_subarray_remove_idx, Len(d), dbg)

\* a slip in line 529: the first element is removed instead of the last
pop_front(d, s, dbg) ==
    IF Len(d) = 0 THEN Result(d, s, None)
    ELSE remove(d, s, 0, dbg)

pop(d, s, dbg) ==
    IF Len(d) = 0 THEN Result(d, s, None)
    ELSE remove(d, s, Len(d) - 1, dbg)

\* ------------------------------------------------------ truncate, clear
\* lines 914-928.  On an empty vector self.len() - 1 underflows: a debug
\* build panics there; a release build wraps to usize::MAX, for which the
\* subarray start is T(32767) and the slice data[start..end] panics.
unrotate_last_subarray(d, s) ==
    IF Len(d) = 0 \/ Len(s) = 0
    THEN [data |-> d, si |-> s, panic |-> TRUE]
    ELSE
    LET last_subarray_idx == get_subarray_idx_from_array_idx(Len(d) - 1)
        last_subarray_start_idx == get_array_idx_from_subarray_idx(last_subarray_idx)
        last_subarray_len == IF last_subarray_idx = Len(s) - 1
                             THEN Len(d) - last_subarray_start_idx
                             ELSE last_subarray_idx + 1
        last_subarray_end_idx == last_subarray_start_idx + last_subarray_len
    IN  IF last_subarray_end_idx > Len(d) \/ last_subarray_idx >= Len(s)
        THEN [data |-> d, si |-> s, panic |-> TRUE]
        ELSE IF At(s, last_subarray_idx) > last_subarray_len
        THEN [data |-> d, si |-> s, panic |-> TRUE]
        ELSE [data |-> RotateLeft(d, last_subarray_start_idx,
                                  last_subarray_end_idx,
                                  At(s, last_subarray_idx)),
              si |-> Upd(s, last_subarray_idx, 0),
              panic |-> FALSE]

\* a slip in lines 346-348: the early return is missing, so the last
\* subarray is un-rotated and both vectors are cut whatever len is
truncate_without_guard(d, s, len, dbg) ==
    IF Len(d) = 0 THEN Result(d, s, None)
    ELSE
    LET u == unrotate_last_subarray(d, s)
    IN  IF u.panic THEN Panic(u.data, u.si)
        ELSE
        LET last_subarray_idx == get_subarray_idx_from_array_idx(Len(u.data) - 1)
        IN  Result(Take(u.data, IF len < Len(u.data) THEN len ELSE Len(u.data)),
                   Take(u.si, IF last_subarray_idx + 1 < Len(u.si)
                              THEN last_subarray_idx + 1 ELSE Len(u.si)),
                   None)

\* lines 345-357
truncate(d, s, len, dbg) ==
    IF len >= Len(d) THEN Result(d, s, None)
    ELSE
    LET u == unrotate_last_subarray(d, s)
    IN  IF u.panic THEN Panic(u.data, u.si)
        ELSE
        LET last_subarray_idx == get_subarray_idx_from_array_idx(Len(u.data) - 1)
        IN  Result(Take(u.data, len),
                   Take(u.si, IF last_subarray_idx + 1 < Len(u.si)
                              THEN last_subarray_idx + 1 ELSE Len(u.si)),
                   None)

\* lines 463-466
clear(d, s) == Result(<<>>, <<>>, None)

\* ------------------------------------------- append, extend, sort, from
\* usize::MAX maps to subarray 32767: self.data.len() - 1 on an empty
\* vector wraps in a release build, (n * 8 + 1) wraps to 2^64 - 7, the
\* cast to u32 keeps 2^32 - 7, whose square root truncates to 65535, and
\* (65535 - 1) / 2 = 32767.
WrappedLastSubarrayIdx == 32767

\* lines 1047-1048 and 780-781: the index table is resized for the new
\* length.  On an empty vector a debug build panics on the subtraction.
resize_start_indexes(d, s, dbg) ==
    IF Len(d) = 0
    THEN IF dbg THEN [si |-> s, panic |-> TRUE]
         ELSE [si |-> Resize(s, WrappedLastSubarrayIdx + 1, 0), panic |-> FALSE]
    ELSE [si |-> Resize(s, get_subarray_idx_from_array_idx(Len(d) - 1) + 1, 0),
          panic |-> FALSE]

\* lines 1036-1049
extend(d, s, iter, dbg) ==
    LET u == IF ~is_last_subarray_full(d, s) THEN unrotate_last_subarray(d, s)
             ELSE [data |-> d, si |-> s, panic |-> FALSE]
    IN  IF u.panic THEN Panic(u.data, u.si)
        ELSE LET d2 == u.data \o iter
                 z == resize_start_indexes(d2, u.si, dbg)
             IN  IF z.panic THEN Panic(d2, z.si) ELSE Result(d2, z.si, None)

\* lines 772-784; od, os are the fields of other, and the result carries
\* them as other_data, other_si
append(d, s, od, os, dbg) ==
    LET u == IF ~is_last_subarray_full(d, s) THEN unrotate_last_subarray(d, s)
             ELSE [data |-> d, si |-> s, panic |-> FALSE]
    IN  IF u.panic
        THEN [data |-> u.data, si |-> u.si, ret |-> None, panic |-> TRUE,
              other_data |-> od, other_si |-> os]
        ELSE LET d2 == u.data \o od
                 z == resize_start_indexes(d2, u.si, dbg)
             IN  IF z.panic
                 THEN [data |-> d2, si |-> z.si, ret |-> None, panic |-> TRUE,
                       other_data |-> <<>>, other_si |-> os]
                 ELSE [data |-> d2, si |-> z.si, ret |-> None, panic |-> FALSE,
                       other_data |-> <<>>, other_si |-> <<>>]

\* slice::sort and slice::sort_unstable: the elements in ascending order
RECURSIVE Ascending(_)
Ascending(q) ==
    IF Len(q) <= 1 THEN q
    ELSE LET m == CHOOSE i \in 1..Len(q) : \A j \in 1..Len(q) : q[i] <= q[j]
         IN  <<q[m]>> \o Ascending(SubSeq(q, 1, m - 1) \o SubSeq(q, m + 1, Len(q)))

sort_keeping_rotation(d, s) == Result(Ascending(d), s, None)

\* lines 815-823
sort(d, s) == Result(Ascending(d), Zeros(Len(s)), None)

\* lines 854-862
sort_unstable(d, s) == Result(Ascending(d), Zeros(Len(s)), None)

\* lines 949-956 and 1212-1224: RotatedVec::from(vec)
from(vec) ==
    Result(vec,
           IF Len(vec) = 0 THEN <<>>
           ELSE Zeros(get_subarray_idx_from_array_idx(Len(vec) - 1) + 1),
           None)

\* ------------------------------------------------------------------- Iter
\* An Iter is [next_index, next_rev_index] over the borrowed container
\* (d, s).  Each method gives the result ret, the two indexes after the
\* call, and whether the call panics.
IterResult(ret, f, r, panic) ==
    [ret |-> ret, next_index |-> f, next_rev_index |-> r, panic |-> panic]

\* lines 373-379: iter(); lines 404-411: iter_mut() sets the same indexes
RotatedVec_iter(d, dbg) ==
    LET last == USub(Len(d), 1, dbg)
    IN  IterResult(None, 0, last.val, last.panic)

\* lines 1058-1066 (and 1140-1151 for IterMut, through get_mut)
Iter_next(d, s, f, r, dbg) ==
    IF ULt(r, f) THEN IterResult(None, f, r, FALSE)
    ELSE IF get_panics(d, s, f) THEN IterResult(None, f, r, TRUE)
    ELSE LET n1 == UAdd(f, 1, dbg)
         IN  IterResult(get(d, s, f), n1.val, r, n1.panic)

\* lines 1068-1077
Iter_nth(d, s, f, r, n, dbg) ==
    LET f1 == UAdd(f, n, dbg)
    IN  IF f1.panic THEN IterResult(None, f, r, TRUE)
        ELSE IF ULt(r, f1.val) THEN IterResult(None, f1.val, r, FALSE)
        ELSE IF get_panics(d, s, f1.val) THEN IterResult(None, f1.val, r, TRUE)
        ELSE LET n1 == UAdd(f1.val, 1, dbg)
             IN  IterResult(get(d, s, f1.val), n1.val, r, n1.panic)

\* lines 1079-1081; ret is <<the count>>
Iter_count(d, s, f, r, dbg) ==
    LET c == USub(Len(d), f, dbg)
    IN  IterResult(<<c.val>>, f, r, c.panic)

\* lines 1083-1085
Iter_last(d, s, f, r, dbg) ==
    LET i == USub(Len(d), 1, dbg)
    IN  IF i.panic \/ get_panics(d, s, i.val) THEN IterResult(None, f, r, TRUE)
        ELSE IterResult(get(d, s, i.val), f, r, FALSE)

\* lines 1087-1090; ret is <<the lower bound, the upper bound>>
Iter_size_hint(d, s, f, r, dbg) ==
    LET c == USub(Len(d), f, dbg)
    IN  IterResult(<<c.val, Some(c.val)>>, f, r, c.panic)

\* lines 1097-1105
Iter_next_back(d, s, f, r, dbg) ==
    IF ULt(r, f) THEN IterResult(None, f, r, FALSE)
    ELSE IF get_panics(d, s, r) THEN IterResult(None, f, r, TRUE)
    ELSE LET r1 == USub(r, 1, dbg)
         IN  IterResult(get(d, s, r), f, r1.val, r1.panic)

\* lines 1107-1116
Iter_nth_back(d, s, f, r, n, dbg) ==
    LET r1 == USub(r, n, dbg)
    IN  IF r1.panic THEN IterResult(None, f, r, TRUE)
        ELSE IF ULt(r1.val, f) THEN IterResult(None, f, r1.val, FALSE)
        ELSE IF get_panics(d, s, r1.val) THEN IterResult(None, f, r1.val, TRUE)
        ELSE LET r2 == USub(r1.val, 1, dbg)
             IN  IterResult(get(d, s, r1.val), f, r2.val, r2.panic)

\* lines 1123-1125: ExactSizeIterator::len; ret is <<the length>>
Iter_len(d, s, f, r, dbg) == IterResult(<<Len(d)>>, f, r, FALSE)

\* lines 404-411: iter_mut(); an IterMut is the same pair of indexes
RotatedVec_iter_mut(d, dbg) ==
    LET last == USub(Len(d), 1, dbg)
    IN  IterResult(None, 0, last.val, last.panic)

\* lines 1140-1151: IterMut::next; the reference it hands out is modelled
\* by the slot of data it points to, so ret is <<the slot>>
IterMut_next(d, s, f, r, dbg) ==
    IF ULt(r, f) THEN IterResult(None, f, r, FALSE)
    ELSE IF get_panics(d, s, f) THEN IterResult(None, f, r, TRUE)
    ELSE LET n1 == UAdd(f, 1, dbg)
         IN  IterResult(IF ~ULt(f, Len(d)) THEN None
                        ELSE Some(get_real_index(d, s, f)),
                        n1.val, r, n1.panic)

\* ------------------------------------------------------------ conversions
into_keeping_rotation(d, s) == [vec |-> d, panic |-> FALSE]

\* lines 1230-1245, the loop from subarray i on: each subarray is rotated
\* left by its pivot offset.  Taking the slice panics when it does not lie
\* in data (also when the length of the last subarray underflows), and
\* rotate_left panics when the pivot offset exceeds the slice length.
RECURSIVE into_loop(_, _, _)
into_loop(d, s, i) ==
    IF i >= Len(s) THEN [vec |-> d, panic |-> FALSE]
    ELSE
    LET pivot_offset == At(s, i)
        subarray_start_idx == get_array_idx_from_subarray_idx(i)
        subarray_len == IF i = Len(s) - 1 THEN Len(d) - subarray_start_idx
                        ELSE i + 1
        subarray_end_idx == subarray_start_idx + subarray_len
    IN  IF subarray_len < 0 \/ subarray_end_idx > Len(d)
           \/ pivot_offset > subarray_len
        THEN [vec |-> d, panic |-> TRUE]
        ELSE into_loop(RotateLeft(d, subarray_start_idx, subarray_end_idx,
                                  pivot_offset), s, i + 1)

\* lines 1230-1245: Into<Vec<T>>::into
into(d, s) == into_loop(d, s, 0)

\* lines 1187-1195: IntoIter::next on the iterator [vec, next_index]
IntoIter_next(vec, next_index) ==
    IF next_index >= Len(vec)
    THEN [ret |-> None, next_index |-> next_index]
    ELSE [ret |-> Some(At(vec, next_index)), next_index |-> next_index + 1]

\* lines 1173-1178: into_iter, then next until None; the items in order
into_iter_items(d, s) ==
    LET v == into(d, s)
    IN  [items |-> [j \in 1..Len(v.vec) |-> IntoIter_next(v.vec, j - 1).ret[1]],
         last |-> IntoIter_next(v.vec, Len(v.vec)).ret,
         panic |-> v.panic]

\* the round trip: RotatedVec::from(Into::<Vec<T>>::into(self))
into_from(d, s) ==
    LET v == into(d, s)
    IN  IF v.panic THEN Panic(d, s) ELSE from(v.vec)

\* ------------------------------------------------------------ PartialEq
\* a slip in lines 963-973: the backing stores are compared slot by slot
eq_of_backing_stores(d, s, od, os) == [ret |-> d = od, panic |-> FALSE]

\* lines 967-971: the loop of eq from position i on; get(i).unwrap()
\* panics when get returns None
RECURSIVE eq_loop(_, _, _, _, _)
eq_loop(d, s, od, os, i) ==
    IF i >= Len(d) THEN [ret |-> TRUE, panic |-> FALSE]
    ELSE IF get_panics(d, s, i) \/ get_panics(od, os, i)
    THEN [ret |-> FALSE, panic |-> TRUE]
    ELSE IF get(d, s, i) = None \/ get(od, os, i) = None
    THEN [ret |-> FALSE, panic |-> TRUE]
    ELSE IF get(d, s, i) # get(od, os, i) THEN [ret |-> FALSE, panic |-> FALSE]
    ELSE eq_loop(d, s, od, os, i + 1)

\* lines 959-974: PartialEq::eq(&self, other); od, os are other's fields
eq(d, s, od, os) ==
    IF Len(d) # Len(od) THEN [ret |-> FALSE, panic |-> FALSE]
    ELSE eq_loop(d, s, od, os, 0)

\* ------------------------------------------------- tests/proptests.rs
\* insert_remove: v.insert(i, x); v.remove(i)
insert_remove(d, s, i, x, dbg) ==
    LET r == insert(d, s, i, x, dbg)
    IN  IF r.panic THEN r ELSE remove(r.data, r.si, i, dbg)

\* push_pop: v.push(x); v.pop()
push_pop(d, s, x, dbg) ==
    LET r == push(d, s, x, dbg)
    IN  IF r.panic THEN r ELSE pop(r.data, r.si, dbg)

\* ------------------------------------------------------------ the program
\* h names the last call.  script is the position of a scripted caller:
\* "none" (any call may come next), the unit test push_pop (pushes, then
\* pops) or the documented scenario "push 1..N, then remove(0) N times";
\* pushed / out are what it pushed and what it got back.
Call(op) == [op |-> op]

\* cursor is the iterator borrowing the container, if one is live: its two
\* indexes, what next returned so far (outf) and what next_back returned
\* (outb), whether a call has returned None (ended), whether a call after
\* that returned an element (resumed), whether nth or nth_back was called
\* (skipped).  What was returned is kept only up to the first nth or
\* nth_back.
NoCursor ==
    [live |-> FALSE, next_index |-> 0, next_rev_index |-> 0,
     outf |-> <<>>, outb |-> <<>>, ended |-> FALSE, resumed |-> FALSE,
     skipped |-> FALSE]

Scripts == {"none", "push_pop", "scenario_c"}

Init ==
    /\ data = <<>>
    /\ start_indexes = <<>>
    /\ debug \in BOOLEAN
    /\ status = "ok"
    /\ h = Call("new")
    /\ script \in {[kind |-> k, draining |-> FALSE, pushed |-> <<>>, out |-> <<>>] :
                      k \in Scripts}
    /\ cursor = NoCursor

Apply(r, call) ==
    /\ data' = r.data
    /\ start_indexes' = r.si
    /\ status' = IF r.panic THEN "panic" ELSE "ok"
    /\ h' = call
    /\ UNCHANGED <<debug, cursor>>

\* no scripted caller, and no iterator borrowing the container
Free == status = "ok" /\ script.kind = "none" /\ ~cursor.live

Push ==
    /\ Free /\ Len(data) < MaxLen
    /\ \E v \in Values : \E r \in {push(data, start_indexes, v, debug)} :
          Apply(r, Call("push"))
    /\ UNCHANGED script

Pop ==
    /\ Free
    /\ \E r \in {pop(data, start_indexes, debug)} :
          Apply(r, Call("pop"))
    /\ UNCHANGED script

\* index = len + 1 is the call that violates the precondition
Insert ==
    /\ Free /\ Len(data) < MaxLen
    /\ \E index \in 0..(Len(data) + 1), v \in Values :
          \E r \in {insert(data, start_indexes, index, v, debug)} :
             Apply(r, Call("insert"))
    /\ UNCHANGED script

\* index = len is the call that violates the precondition
Remove ==
    /\ Free
    /\ \E index \in 0..Len(data) :
          \E r \in {remove(data, start_indexes, index, debug)} :
             Apply(r, Call("remove"))
    /\ UNCHANGED script

\* tests/proptests.rs: v.insert(i, x); v.remove(i)
InsertRemove ==
    /\ Free /\ Len(data) < MaxLen
    /\ \E index \in 0..Len(data), x \in Values :
          \E r \in {insert_remove(data, start_indexes, index, x, debug)} :
             Apply(r, Call("insert_remove"))
    /\ UNCHANGED script

\* tests/proptests.rs: v.push(x); v.pop()
PushPop ==
    /\ Free /\ Len(data) < MaxLen
    /\ \E x \in Values :
          \E r \in {push_pop(data, start_indexes, x, debug)} :
             Apply(r, Call("push_pop"))
    /\ UNCHANGED script

\* tests::push_pop: push any values, then pop as many
TestPush ==
    /\ status = "ok" /\ script.kind = "push_pop" /\ ~script.draining
    /\ Len(data) < MaxLen
    /\ \E v \in Values : \E r \in {push(data, start_indexes, v, debug)} :
          /\ Apply(r, Call("push"))
          /\ script' = [script EXCEPT !.pushed = Append(@, v)]

TestPop ==
    /\ status = "ok" /\ script.kind = "push_pop"
    /\ Len(script.out) < Len(script.pushed)
    /\ \E r \in {pop(data, start_indexes, debug)} :
          /\ Apply(r, Call("pop"))
          /\ script' = [script EXCEPT !.draining = TRUE, !.out = Append(@, r.ret)]

\* Scenario C: push 1, 2, ..., N in order, then remove(0) N times
ScenarioPush ==
    /\ status = "ok" /\ script.kind = "scenario_c" /\ ~script.draining
    /\ Len(data) < MaxScenario
    /\ \E r \in {push(data, start_indexes, Len(script.pushed) + 1, debug)} :
          /\ Apply(r, Call("push"))
          /\ script' = [script EXCEPT !.pushed = Append(@, Len(@) + 1)]

ScenarioRemove ==
    /\ status = "ok" /\ script.kind = "scenario_c"
    /\ Len(script.out) < Len(script.pushed)
    /\ \E r \in {remove(data, start_indexes, 0, debug)} :
          /\ Apply(r, Call("remove"))
          /\ script' = [script EXCEPT !.draining = TRUE, !.out = Append(@, r.ret)]

Truncate ==
    /\ Free
    /\ \E len \in 0..(Len(data) + 1) :
          \E r \in {truncate(data, start_indexes, len, debug)} :
             Apply(r, Call("truncate"))
    /\ UNCHANGED script

Clear ==
    /\ Free
    /\ \E r \in {clear(data, start_indexes)} : Apply(r, Call("clear"))
    /\ UNCHANGED script

\* a call on the live iterator: r is the result of the method, end is "f"
\* for next, "b" for next_back and "" for the other methods
IterApply(r, call, end, skip) ==
    LET was == cursor.skipped \/ skip
    IN
    /\ status' = IF r.panic THEN "panic" ELSE "ok"
    /\ h' = call
    /\ cursor' = [live |-> TRUE,
                  next_index |-> r.next_index,
                  next_rev_index |-> r.next_rev_index,
                  outf |-> IF was THEN <<>>
                           ELSE IF end = "f" THEN Append(cursor.outf, r.ret)
                           ELSE cursor.outf,
                  outb |-> IF was THEN <<>>
                           ELSE IF end = "b" THEN Append(cursor.outb, r.ret)
                           ELSE cursor.outb,
                  ended |-> ~was /\ (cursor.ended
                                       \/ (end # "" /\ ~r.panic /\ r.ret = None)),
                  resumed |-> ~was /\ (cursor.resumed
                                         \/ (cursor.ended /\ end # "" /\ r.ret # None)),
                  skipped |-> was]
    /\ UNCHANGED <<data, start_indexes, debug, script>>

\* the iterator is live, and has not been driven past the bounds
Borrowed ==
    /\ status = "ok" /\ cursor.live
    /\ Len(cursor.outf) + Len(cursor.outb) < MaxIterCalls
    /\ cursor.next_index <= Len(data) + MaxSkip
    /\ cursor.next_rev_index >= -(MaxSkip + 1)

IterNew ==
    /\ Free /\ Len(data) <= MaxIterLen
    /\ \E r \in {RotatedVec_iter(data, debug)} :
          /\ status' = IF r.panic THEN "panic" ELSE "ok"
          /\ h' = Call("iter")
          /\ cursor' = [NoCursor EXCEPT !.live = TRUE,
                                        !.next_index = r.next_index,
                                        !.next_rev_index = r.next_rev_index]
    /\ UNCHANGED <<data, start_indexes, debug, script>>

IterNext ==
    /\ Borrowed
    /\ \E r \in {Iter_next(data, start_indexes, cursor.next_index,
                            cursor.next_rev_index, debug)} :
          IterApply(r, Call("next"), "f", FALSE)

IterNextBack ==
    /\ Borrowed
    /\ \E r \in {Iter_next_back(data, start_indexes, cursor.next_index,
                                 cursor.next_rev_index, debug)} :
          IterApply(r, Call("next_back"), "b", FALSE)

IterNth ==
    /\ Borrowed
    /\ \E n \in 0..MaxSkip :
          \E r \in {Iter_nth(data, start_indexes, cursor.next_index,
                              cursor.next_rev_index, n, debug)} :
             IterApply(r, Call("nth"), "", TRUE)

IterNthBack ==
    /\ Borrowed
    /\ \E n \in 0..MaxSkip :
          \E r \in {Iter_nth_back(data, start_indexes, cursor.next_index,
                                   cursor.next_rev_index, n, debug)} :
             IterApply(r, Call("nth_back"), "", TRUE)

\* count, last, size_hint and len leave the iterator as it is (Iter is Copy)
IterCount ==
    /\ Borrowed
    /\ \E r \in {Iter_count(data, start_indexes, cursor.next_index,
                             cursor.next_rev_index, debug)} :
          IterApply(r, Call("count"), "", FALSE)

IterLast ==
    /\ Borrowed
    /\ \E r \in {Iter_last(data, start_indexes, cursor.next_index,
                            cursor.next_rev_index, debug)} :
          IterApply(r, Call("last"), "", FALSE)

IterSizeHint ==
    /\ Borrowed
    /\ \E r \in {Iter_size_hint(data, start_indexes, cursor.next_index,
                                 cursor.next_rev_index, debug)} :
          IterApply(r, Call("size_hint"), "", FALSE)

IterLen ==
    /\ Borrowed
    /\ \E r \in {Iter_len(data, start_indexes, cursor.next_index,
                           cursor.next_rev_index, debug)} :
          IterApply(r, Call("len"), "", FALSE)

\* let mut it = v.iter_mut();
IterMutNew ==
    /\ Free /\ Len(data) <= MaxIterLen
    /\ \E r \in {RotatedVec_iter_mut(data, debug)} :
          /\ status' = IF r.panic THEN "panic" ELSE "ok"
          /\ h' = Call("iter_mut")
          /\ cursor' = [NoCursor EXCEPT !.live = TRUE,
                                        !.next_index = r.next_index,
                                        !.next_rev_index = r.next_rev_index]
    /\ UNCHANGED <<data, start_indexes, debug, script>>

\* it.next(), whose results are the slots the references point to
IterMutNext ==
    /\ Borrowed
    /\ \E r \in {IterMut_next(data, start_indexes, cursor.next_index,
                               cursor.next_rev_index, debug)} :
          IterApply(r, Call("next_mut"), "f", FALSE)

\* the positions and the subarray indexes the index maths is applied to
Positions ==
    (0..MaxPosition) \cup {U32Positions + i : i \in 0..MaxPosition}

SubarrayIdxs ==
    (0..MaxPosition) \cup {WrappedLastSubarrayIdx + i : i \in 0..1}

\* Self::get_subarray_idx_from_array_idx(idx), an associated function,
\* called once on a position
SubarrayOf ==
    /\ Free /\ h.op = "new"
    /\ \E idx \in Positions :
          h' = [op |-> "get_subarray_idx_from_array_idx", arg |-> idx,
                ret |-> get_subarray_idx_from_array_idx(idx)]
    /\ UNCHANGED <<data, start_indexes, debug, status, script, cursor>>

\* Self::get_array_idx_from_subarray_idx(idx), an associated function,
\* called once on a subarray index
StartOf ==
    /\ Free /\ h.op = "new"
    /\ \E idx \in SubarrayIdxs :
          h' = [op |-> "get_array_idx_from_subarray_idx", arg |-> idx,
                ret |-> get_array_idx_from_subarray_idx(idx)]
    /\ UNCHANGED <<data, start_indexes, debug, status, script, cursor>>

\* get and get_mut return to the caller and leave the container alone
get_call(d, s, index) ==
    IF get_panics(d, s, index) THEN Panic(d, s) ELSE Result(d, s, get(d, s, index))

get_mut_call(d, s, index) ==
    IF get_panics(d, s, index) THEN Panic(d, s)
    ELSE Result(d, s, get_mut(d, s, index))

Get ==
    /\ Free
    /\ \E index \in 0..(Len(data) + 1) :
          \E r \in {get_call(data, start_indexes, index)} : Apply(r, Call("get"))
    /\ UNCHANGED script

GetMut ==
    /\ Free
    /\ \E index \in 0..(Len(data) + 1) :
          \E r \in {get_mut_call(data, start_indexes, index)} :
             Apply(r, Call("get_mut"))
    /\ UNCHANGED script

IndexAt ==
    /\ Free
    /\ \E i \in 0..(Len(data) + 1) :
          \E r \in {Index_index(data, start_indexes, i)} : Apply(r, Call("index"))
    /\ UNCHANGED script

IndexMutAt ==
    /\ Free
    /\ \E i \in 0..(Len(data) + 1) :
          \E r \in {index_mut(data, start_indexes, i)} :
             Apply(r, Call("index_mut"))
    /\ UNCHANGED script

Swap ==
    /\ Free
    /\ \E a \in 0..Len(data), b \in 0..Len(data) :
          \E r \in {swap(data, start_indexes, a, b)} : Apply(r, Call("swap"))
    /\ UNCHANGED script

\* the container is converted to a Vec and back
RoundTrip ==
    /\ Free
    /\ \E r \in {into_from(data, start_indexes)} : Apply(r, Call("into_from"))
    /\ UNCHANGED script

\* the sequences of at most n values
SeqsUpTo(n) == UNION {[1..k -> Values] : k \in 0..n}

\* the containers passed as `other`: made from a vector, and then possibly
\* changed by one insert (which can leave a subarray rotated)
Others ==
    LET made == {from(q) : q \in SeqsUpTo(MaxOther)}
    IN  made \cup UNION {{insert(o.data, o.si, i, v, FALSE) :
                                 i \in 0..Len(o.data), v \in Values} : o \in made}

\* v == other
Eq ==
    /\ Free
    /\ \E o \in Others :
          \E r \in {eq(data, start_indexes, o.data, o.si)} :
             Apply([data |-> data, si |-> start_indexes,
                    ret |-> Some(r.ret), panic |-> r.panic], Call("eq"))
    /\ UNCHANGED script

AppendOther ==
    /\ Free
    /\ \E o \in {x \in Others : Len(data) + Len(x.data) <= MaxLen} :
          \E r \in {append(data, start_indexes, o.data, o.si, debug)} :
             Apply(r, Call("append"))
    /\ UNCHANGED script

Extend ==
    /\ Free
    /\ \E iter \in {q \in SeqsUpTo(MaxExtend) : Len(data) + Len(q) <= MaxLen} :
          \E r \in {extend(data, start_indexes, iter, debug)} :
             Apply(r, Call("extend"))
    /\ UNCHANGED script

Sort ==
    /\ Free
    /\ \E r \in {sort(data, start_indexes)} : Apply(r, Call("sort"))
    /\ UNCHANGED script

SortUnstable ==
    /\ Free
    /\ \E r \in {sort_unstable(data, start_indexes)} :
          Apply(r, Call("sort_unstable"))
    /\ UNCHANGED script

Next ==
    \/ Push \/ Pop \/ Insert \/ Remove
    \/ InsertRemove \/ PushPop
    \/ TestPush \/ TestPop
    \/ ScenarioPush \/ ScenarioRemove

Spec == Init /\ [][Next]_vars

\* the same calls, and truncate and clear among them
NextTruncate == Push \/ Pop \/ Insert \/ Remove \/ Truncate \/ Clear

SpecTruncate == Init /\ [][NextTruncate]_vars

\* the same calls, and append, extend and the sorts among them
NextBulk ==
    \/ Push \/ Pop \/ Insert \/ Remove
    \/ AppendOther \/ Extend \/ Sort \/ SortUnstable

SpecBulk == Init /\ [][NextBulk]_vars

\* every mutating call
NextAll ==
    \/ Push \/ Pop \/ Insert \/ Remove
    \/ Truncate \/ Clear
    \/ AppendOther \/ Extend \/ Sort \/ SortUnstable

SpecAll == Init /\ [][NextAll]_vars

\* the calls that build a container, clear and the sorts
NextCore ==
    \/ Push \/ Pop \/ Insert \/ Remove
    \/ Clear \/ Sort \/ SortUnstable

SpecCore == Init /\ [][NextCore]_vars

\* the calls that build a container, and a mutable iterator over it
NextIterMut ==
    \/ Push \/ Pop \/ Insert \/ Remove
    \/ IterMutNew \/ IterMutNext

SpecIterMut == Init /\ [][NextIterMut]_vars

\* the two conversions between positions and subarrays, on their own
NextIndexMaths == SubarrayOf \/ StartOf

SpecIndexMaths == Init /\ [][NextIndexMaths]_vars

\* the calls that build a container, and the comparison with another one
NextEq ==
    \/ Push \/ Pop \/ Insert \/ Remove
    \/ Eq

SpecEq == Init /\ [][NextEq]_vars

\* the calls that build a container, get, get_mut and the conversions
NextRead ==
    \/ Push \/ Pop \/ Insert \/ Remove
    \/ Get \/ GetMut \/ RoundTrip

SpecRead == Init /\ [][NextRead]_vars

\* the calls that build a container, the indexing operators and swap
NextSwap ==
    \/ Push \/ Pop \/ Insert \/ Remove
    \/ IndexAt \/ IndexMutAt \/ Swap

SpecSwap == Init /\ [][NextSwap]_vars

\* the calls that build a container, and an iterator over it
NextIter ==
    \/ Push \/ Pop \/ Insert \/ Remove
    \/ IterNew \/ IterNext \/ IterNextBack \/ IterNth \/ IterNthBack
    \/ IterCount \/ IterLast \/ IterSizeHint \/ IterLen

SpecIter == Init /\ [][NextIter]_vars

\* ----------------------------------------------------------------- claims
Rotated(s) == \E k \in 1..Len(s) : s[k] # 0

\* C1: in every container reachable by push/pop/insert/remove, for every
\* index with 0 <= index <= len and every v, insert(index, v) completes,
\* the length grows by exactly one, get(index) = v, get(j) is unchanged
\* for j < index and get(j+1) is the previous get(j) for index <= j < len.
C1_InsertShiftsTail ==
    status = "ok" =>
        \A index \in 0..Len(data), v \in Values :
            \A r \in {insert(data, start_indexes, index, v, debug)} :
                /\ ~r.panic
                /\ Len(r.data) = Len(data) + 1
                /\ LogicalOk(r.data, r.si)
                /\ get(r.data, r.si, index) = Some(v)
                /\ \A j \in 0..(index - 1) :
                       get(r.data, r.si, j) = get(data, start_indexes, j)
                /\ \A j \in index..(Len(data) - 1) :
                       get(r.data, r.si, j + 1) = get(data, start_indexes, j)

\* an insert produced a container of four subarrays, two of them rotated,
\* and an insert into its first subarray carries an element through the
\* two full ones that follow into the partial last one
C1_Witness ==
    /\ h.op = "insert" /\ status = "ok"
    /\ Len(data) = 7 /\ Len(start_indexes) = 4
    /\ start_indexes[2] # 0 /\ start_indexes[3] # 0
    /\ Logical(data, start_indexes) = <<0, 1, 0, 0, 1, 0, 1>>
    /\ \E r \in {insert(data, start_indexes, 0, 1, debug)} :
          /\ Len(r.si) = 4
          /\ r.si[2] # start_indexes[2] /\ r.si[3] # start_indexes[3]
          /\ Logical(r.data, r.si) = <<1, 0, 1, 0, 0, 1, 0, 1>>

\* C2: in every container reachable by push/pop/insert/remove, for every
\* index < len, remove(index) completes and returns the previous
\* get(index), the length shrinks by exactly one, get(j) is unchanged for
\* j < index and get(j) is the previous get(j+1) for index <= j < new len.
C2_RemoveShiftsTail ==
    status = "ok" =>
        \A index \in 0..(Len(data) - 1) :
            \A r \in {remove(data, start_indexes, index, debug)} :
                /\ ~r.panic
                /\ r.ret = get(data, start_indexes, index)
                /\ Len(r.data) = Len(data) - 1
                /\ LogicalOk(r.data, r.si)
                /\ \A j \in 0..(index - 1) :
                       get(r.data, r.si, j) = get(data, start_indexes, j)
                /\ \A j \in index..(Len(data) - 2) :
                       get(r.data, r.si, j) = get(data, start_indexes, j + 1)

\* C3: for every reachable container, index <= len and value x,
\* insert(index, x) followed by remove(index) returns x, restores the
\* length and leaves get(i) as it was for every i.
C3_InsertThenRemove ==
    status = "ok" =>
        \A index \in 0..Len(data), x \in Values :
            \A r \in {insert_remove(data, start_indexes, index, x, debug)} :
                /\ ~r.panic
                /\ r.ret = Some(x)
                /\ Len(r.data) = Len(data)
                /\ LogicalOk(r.data, r.si)
                /\ Logical(r.data, r.si) = Logical(data, start_indexes)

\* C4: N pushes on an empty container followed by N pops return the pushed
\* values in reverse order and leave the container empty; and on every
\* reachable container push(x) followed at once by pop() returns x.
C4_PushPopLifo ==
    /\ script.kind = "push_pop" =>
          /\ status = "ok"
          /\ Len(data) = Len(script.pushed) - Len(script.out)
          /\ \A k \in 1..Len(script.out) :
                 script.out[k] = Some(script.pushed[Len(script.pushed) - k + 1])
    /\ status = "ok" =>
          \A x \in Values :
              \A r \in {push_pop(data, start_indexes, x, debug)} :
                  ~r.panic /\ r.ret = Some(x)

\* seven values were pushed and popped again, and the container is empty
C4_Witness ==
    /\ script.kind = "push_pop" /\ h.op = "pop" /\ status = "ok"
    /\ script.pushed = <<0, 1, 1, 0, 1, 0, 0>>
    /\ script.out = <<Some(0), Some(0), Some(1), Some(0), Some(1), Some(1), Some(0)>>
    /\ data = <<>>

\* C5: after pushing 1..N in order, N calls of remove(0) return 1, 2, ...,
\* N in that order and leave the container and its index table empty; and
\* removing the only element of a container leaves both empty.
C5_RemoveFrontDrains ==
    /\ script.kind = "scenario_c" =>
          /\ status = "ok"
          /\ \A k \in 1..Len(script.out) : script.out[k] = Some(k)
          /\ (script.draining /\ Len(script.out) = Len(script.pushed))
                 => (data = <<>> /\ start_indexes = <<>>)
    /\ (status = "ok" /\ Len(data) = 1) =>
          \A r \in {remove(data, start_indexes, 0, debug)} :
              ~r.panic /\ r.data = <<>> /\ r.si = <<>>

\* the number of subarrays in use for a vector of n elements
SubarraysFor(n) ==
    IF n = 0 THEN 0 ELSE get_subarray_idx_from_array_idx(n - 1) + 1

\* C6: on every reachable container, truncate(len) with len < the current
\* length completes, leaves the length len, and every get(i) with i < len
\* returns what it returned before.
C6_TruncateKeepsPrefix ==
    (status = "ok" /\ LogicalOk(data, start_indexes)) =>
        \A len \in 0..(Len(data) - 1) :
            \A r \in {truncate(data, start_indexes, len, debug)} :
                /\ ~r.panic
                /\ Len(r.data) = len
                /\ \A i \in 0..(len - 1) :
                       /\ ~get_panics(r.data, r.si, i)
                       /\ get(r.data, r.si, i) = get(data, start_indexes, i)

\* C7: on every reachable container, truncate(len) leaves one index table
\* entry per subarray in use for the new length; truncate(0) does what
\* clear() does, and a push after it does what it does on a new container.
C7_TruncateTrimsIndexTable ==
    status = "ok" =>
        /\ \A len \in 0..(Len(data) - 1) :
               \A r \in {truncate(data, start_indexes, len, debug)} :
                   ~r.panic /\ Len(r.si) = SubarraysFor(len)
        /\ \A r \in {truncate(data, start_indexes, 0, debug)} :
               /\ r = clear(data, start_indexes)
               /\ \A v \in Values :
                      push(r.data, r.si, v, debug) = push(<<>>, <<>>, v, debug)
\* C8: append(other) leaves self holding its previous logical sequence
\* followed by other's logical sequence, and leaves other empty.  Stated for
\* a non-empty other, so that the subtraction on an empty result is not
\* involved.
C8_AppendConcatenates ==
    (status = "ok" /\ LogicalOk(data, start_indexes)) =>
        \A o \in {x \in Others : Len(x.data) > 0
                                  /\ Len(data) + Len(x.data) <= MaxLen} :
            \A r \in {append(data, start_indexes, o.data, o.si, debug)} :
                /\ ~r.panic
                /\ LogicalOk(r.data, r.si)
                /\ Logical(r.data, r.si)
                      = Logical(data, start_indexes) \o Logical(o.data, o.si)
                /\ r.other_data = <<>>
                /\ r.other_si = <<>>

\* C9: extend(sequence) leaves the container holding its previous logical
\* sequence followed by the elements of the input in their order, and its
\* length grown by the length of the input.
C9_ExtendConcatenates ==
    (status = "ok" /\ LogicalOk(data, start_indexes)) =>
        \A iter \in {q \in SeqsUpTo(MaxExtend) : Len(data) + Len(q) <= MaxLen} :
            \A r \in {extend(data, start_indexes, iter, debug)} :
                /\ ~r.panic
                /\ LogicalOk(r.data, r.si)
                /\ Logical(r.data, r.si) = Logical(data, start_indexes) \o iter
                /\ Len(r.data) = Len(data) + Len(iter)

\* the number of positions of q that hold v
Count(q, v) == Cardinality({i \in 1..Len(q) : q[i] = v})

SortedResult(r) ==
    /\ ~r.panic
    /\ \A k \in 1..Len(r.si) : r.si[k] = 0
    /\ \A i \in 0..(Len(r.data) - 1) : ~get_panics(r.data, r.si, i)
    /\ \A i \in 0..(Len(r.data) - 2) :
          get(r.data, r.si, i)[1] <= get(r.data, r.si, i + 1)[1]
    /\ \A v \in Values : Count(r.data, v) = Count(data, v)

\* C10: after sort or sort_unstable on any container the calls can produce,
\* every entry of the index table is 0, get yields the elements in
\* non-decreasing order over successive logical positions, and the elements
\* are the ones held before the call, each as many times.
C10_SortResetsRotation ==
    status = "ok" =>
        /\ \A r \in {sort(data, start_indexes)} : SortedResult(r)
        /\ \A r \in {sort_unstable(data, start_indexes)} : SortedResult(r)

\* a rotated container whose logical sequence is not in order, and is after
\* sort
C10_Witness ==
    /\ status = "ok"
    /\ Len(data) = MaxLen
    /\ LogicalOk(data, start_indexes)
    /\ Logical(data, start_indexes) = <<1, 0, 1, 0, 0, 1, 0>>
    /\ start_indexes[2] # 0
    /\ start_indexes[3] # 0
    /\ \E r \in {sort(data, start_indexes)} :
          /\ r.data = <<0, 0, 0, 0, 1, 1, 1>>
          /\ r.si = <<0, 0, 0, 0>>
          /\ Logical(r.data, r.si) = r.data
\* C11: converting a container (rotated or not) to a plain sequence yields
\* its elements in logical order, element i being get(i); converting that
\* sequence back gives a container with the same get(i) for every i; and
\* the owning iterator yields the same elements in the same order.
C11_IntoKeepsLogicalOrder ==
    status = "ok" =>
        /\ \A v \in {into(data, start_indexes)} :
              /\ ~v.panic
              /\ Len(v.vec) = Len(data)
              /\ \A i \in 0..(Len(data) - 1) :
                    Some(At(v.vec, i)) = get(data, start_indexes, i)
        /\ \A r \in {into_from(data, start_indexes)} :
              /\ ~r.panic
              /\ Len(r.data) = Len(data)
              /\ \A i \in 0..Len(data) :
                    /\ ~get_panics(r.data, r.si, i)
                    /\ get(r.data, r.si, i) = get(data, start_indexes, i)
        /\ \A it \in {into_iter_items(data, start_indexes)} :
              /\ ~it.panic
              /\ it.items = Logical(data, start_indexes)
              /\ it.last = None

\* a container with two rotated subarrays whose backing store is not in
\* logical order, converted
C11_Witness ==
    /\ status = "ok"
    /\ Len(data) = MaxLen
    /\ start_indexes[2] # 0
    /\ start_indexes[3] # 0
    /\ Logical(data, start_indexes) = <<0, 1, 0, 0, 1, 1, 0>>
    /\ data # Logical(data, start_indexes)
    /\ into(data, start_indexes).vec = <<0, 1, 0, 0, 1, 1, 0>>
    /\ into_from(data, start_indexes).si = <<0, 0, 0, 0>>
\* C12: get(index) and get_mut(index) return the element at logical
\* position index (the element the conversion to a plain sequence puts at
\* index) when index < len and None, without failing, when index >= len
\* (usize::MAX included); the calls leave data and start_indexes as they
\* were.
C12_GetInOrOutOfRange ==
    status = "ok" =>
        /\ \A i \in 0..(Len(data) - 1) :
              \A r \in {get_call(data, start_indexes, i),
                         get_mut_call(data, start_indexes, i)} :
                  /\ ~r.panic
                  /\ r.ret = Some(At(into(data, start_indexes).vec, i))
                  /\ r.data = data /\ r.si = start_indexes
        /\ \A i \in {Len(data), Len(data) + 1, Len(data) + 2, -1} :
              \A r \in {get_call(data, start_indexes, i),
                         get_mut_call(data, start_indexes, i)} :
                  /\ ~r.panic
                  /\ r.ret = None
                  /\ r.data = data /\ r.si = start_indexes

\* get_mut has returned on a container with two rotated subarrays, where
\* logical position 1 is not slot 1
C12_Witness ==
    /\ status = "ok" /\ h.op = "get_mut"
    /\ Len(data) = MaxLen
    /\ start_indexes[2] # 0
    /\ start_indexes[3] # 0
    /\ get_real_index(data, start_indexes, 1) = 2
    /\ At(data, 1) # At(data, 2)
    /\ get_mut(data, start_indexes, 1) = Some(At(data, 2))
    /\ get_mut(data, start_indexes, MaxLen) = None

\* q with the elements at positions x and y exchanged
Transposed(q, x, y) ==
    [j \in 1..Len(q) |->
        IF j - 1 = x THEN At(q, y) ELSE IF j - 1 = y THEN At(q, x) ELSE q[j]]

\* C18: swap(a, b) with a, b < len exchanges the elements at logical
\* positions a and b: afterwards get(a) is the previous get(b), get(b) the
\* previous get(a), and get(i) is unchanged for every other i.
C18_SwapExchangesLogical ==
    status = "ok" =>
        \A a \in 0..(Len(data) - 1), b \in 0..(Len(data) - 1) :
            \A r \in {swap(data, start_indexes, a, b)} :
                /\ ~r.panic
                /\ Logical(r.data, r.si)
                      = Transposed(Logical(data, start_indexes), a, b)

\* phys[i] is the slot that holds logical position i
PhysicalMap == [i \in 0..(Len(data) - 1) |-> get_real_index(data, start_indexes, i)]

\* the logical position held by a slot
LogicalOf(phys, slot) == CHOOSE i \in DOMAIN phys : phys[i] = slot

\* the logical sequence of the backing store q under the mapping phys
LogicalUnder(q, phys) == [j \in 1..Len(q) |-> At(q, phys[j - 1])]

\* a backing store of the length of data whose slot j holds the label j:
\* what swap does to it shows which positions it moves
Slots == [j \in 1..Len(data) |-> j - 1]

\* swap(a, b) moves the elements as the exchange of logical positions x, y
MovesAsExchangeOf(phys, a, b, x, y) ==
    LogicalUnder(swap(Slots, start_indexes, a, b).data, phys)
        = Transposed(LogicalUnder(Slots, phys), x, y)

\* what swap(a, b) does to the backing store and the index table
SwapExchangesSlots(phys, a, b) ==
    \A r \in {swap(data, start_indexes, a, b)} :
        /\ ~r.panic
        /\ r.si = start_indexes
        /\ r.data = Transposed(data, a, b)
        /\ LogicalUnder(r.data, phys)
              = Transposed(LogicalUnder(data, phys),
                           LogicalOf(phys, a), LogicalOf(phys, b))
        /\ MovesAsExchangeOf(phys, a, b, LogicalOf(phys, a), LogicalOf(phys, b))

\* C19: swap(a, b) exchanges the contents of slots a and b of the backing
\* store and changes no other slot and no pivot offset; its logical effect
\* is the exchange of the logical positions held by slots a and b; on an
\* unrotated container physical(i) = i; and it exchanges logical positions
\* a and b exactly when a = b or the slots of logical a and b are, in
\* either order, the slots a and b.
C19_SwapIsPhysical ==
    status = "ok" =>
        \A phys \in {PhysicalMap} :
            /\ LogicalUnder(data, phys) = Logical(data, start_indexes)
            /\ ~Rotated(start_indexes) => \A i \in DOMAIN phys : phys[i] = i
            /\ \A a \in DOMAIN phys, b \in DOMAIN phys :
                  /\ SwapExchangesSlots(phys, a, b)
                  /\ MovesAsExchangeOf(phys, a, b, a, b)
                        <=> (a = b \/ {phys[a], phys[b]} = {a, b})

\* C19 as stated: swap(a, b) exchanges logical positions a and b exactly
\* when physical(a) = a and physical(b) = b.
C19_AsStated ==
    status = "ok" =>
        \A phys \in {PhysicalMap} :
            /\ LogicalUnder(data, phys) = Logical(data, start_indexes)
            /\ ~Rotated(start_indexes) => \A i \in DOMAIN phys : phys[i] = i
            /\ \A a \in DOMAIN phys, b \in DOMAIN phys :
                  /\ SwapExchangesSlots(phys, a, b)
                  /\ MovesAsExchangeOf(phys, a, b, a, b)
                        <=> (phys[a] = a /\ phys[b] = b)

\* swap(1, 3) has acted on a container whose subarray 1 is rotated: slots
\* 1 and 3 hold logical positions 2 and 3, which are the ones exchanged
C19_Witness ==
    /\ status = "ok" /\ h.op = "swap"
    /\ Len(data) = 4
    /\ start_indexes = <<0, 1, 0>>
    /\ PhysicalMap[1] = 2 /\ PhysicalMap[2] = 1
    /\ MovesAsExchangeOf(PhysicalMap, 1, 3, 2, 3)
    /\ ~MovesAsExchangeOf(PhysicalMap, 1, 3, 1, 3)
    /\ MovesAsExchangeOf(PhysicalMap, 1, 2, 1, 2)

\* C20: insert with index > len, remove with index >= len, indexed access
\* with index >= len and swap with a or b >= len each panic, and data and
\* start_indexes are then as they were before the call.
C20_PreconditionFailsClean ==
    status = "ok" =>
        LET Unchanged(r) == r.panic /\ r.data = data /\ r.si = start_indexes
            over == {Len(data), Len(data) + 1, Len(data) + 2}
        IN  /\ \A i \in over \ {Len(data)}, v \in Values :
                  Unchanged(insert(data, start_indexes, i, v, debug))
            /\ \A i \in over :
                  /\ Unchanged(remove(data, start_indexes, i, debug))
                  /\ Unchanged(Index_index(data, start_indexes, i))
                  /\ Unchanged(index_mut(data, start_indexes, i))
                  /\ \A j \in 0..(Len(data) + 2) :
                        /\ Unchanged(swap(data, start_indexes, i, j))
                        /\ Unchanged(swap(data, start_indexes, j, i))

\* swap has panicked on an index equal to the length of a rotated container
C20_Witness ==
    /\ status = "panic" /\ h.op = "swap"
    /\ Len(data) = MaxLen
    /\ start_indexes[2] # 0
    /\ start_indexes[3] # 0
    /\ swap(data, start_indexes, 0, MaxLen).panic
    /\ swap(data, start_indexes, 0, MaxLen).data = data
\* the elements of a sequence of returned results
Yielded(out) == SelectSeq(out, LAMBDA x : x # None)

\* C13: forward iteration with iter() over any container, an empty one
\* included, yields exactly len elements, the i-th being get(i), and then
\* yields None; neither iter() nor next fails.
C13_ForwardIteration ==
    (cursor.live /\ ~cursor.skipped /\ cursor.outb = <<>>
                 /\ h.op \in {"iter", "next"}) =>
        /\ status = "ok"
        /\ \A k \in 1..Len(cursor.outf) :
              cursor.outf[k] = IF k <= Len(data)
                               THEN get(data, start_indexes, k - 1)
                               ELSE None

\* C14: under any interleaving of next and next_back on an iterator over a
\* container of length n > 0 no call fails, next yields the logical positions
\* in ascending order from 0, next_back in descending order from n - 1,
\* every position is yielded exactly once in total, and once a call has
\* returned None every later call from either end returns None.
C14_DoubleEndedIteration ==
    (cursor.live /\ ~cursor.skipped /\ Len(data) > 0
                 /\ h.op \in {"iter", "next", "next_back"}) =>
        LET n == Len(data)
            F == Yielded(cursor.outf)
            B == Yielded(cursor.outb)
        IN  /\ status = "ok"
            /\ \A k \in 1..Len(F) : k <= n /\ F[k] = get(data, start_indexes, k - 1)
            /\ \A k \in 1..Len(B) : k <= n /\ B[k] = get(data, start_indexes, n - k)
            /\ Len(F) + Len(B) <= n
            /\ cursor.ended => Len(F) + Len(B) = n
            /\ ~cursor.resumed

\* the elements the iterator [f, r] yields when driven forward with next
\* until it returns None
RECURSIVE Drain(_, _, _, _, _, _)
Drain(d, s, f, r, dbg, fuel) ==
    IF fuel = 0 THEN <<>>
    ELSE LET q == Iter_next(d, s, f, r, dbg)
         IN  IF q.panic \/ q.ret = None THEN <<>>
             ELSE q.ret \o Drain(d, s, q.next_index, r, dbg, fuel - 1)

Remaining ==
    Drain(data, start_indexes, cursor.next_index, cursor.next_rev_index,
          debug, Len(data) + 1)

\* neither index of the iterator has wrapped below zero
Unwrapped == cursor.next_index >= 0 /\ cursor.next_rev_index >= 0

\* C15: at any point of an iteration (over a non-empty container, before
\* any index has wrapped) count(), size_hint() and len() of the iterator
\* report the number of elements it would still yield, which for a fresh
\* iterator is the length of the container.
C15_CountIsRemaining ==
    (cursor.live /\ status = "ok" /\ Len(data) > 0 /\ Unwrapped) =>
        \A k \in {Len(Remaining)} :
            /\ h.op = "iter" => k = Len(data)
            /\ \A q \in {Iter_count(data, start_indexes, cursor.next_index,
                                      cursor.next_rev_index, debug)} :
                  ~q.panic /\ q.ret = <<k>>
            /\ \A q \in {Iter_size_hint(data, start_indexes, cursor.next_index,
                                          cursor.next_rev_index, debug)} :
                  ~q.panic /\ q.ret = <<k, Some(k)>>
            /\ \A q \in {Iter_len(data, start_indexes, cursor.next_index,
                                    cursor.next_rev_index, debug)} :
                  ~q.panic /\ q.ret = <<k>>

\* C16: last() returns the last element the iterator would yield if driven
\* forward to exhaustion, and None when it has nothing left to yield; for
\* a fresh iterator that is get(len - 1).  (Stated for a non-empty
\* container, before any index has wrapped.)
C16_LastIsRear ==
    (cursor.live /\ status = "ok" /\ Len(data) > 0 /\ Unwrapped) =>
        \A rest \in {Remaining} :
            \A q \in {Iter_last(data, start_indexes, cursor.next_index,
                                 cursor.next_rev_index, debug)} :
                /\ ~q.panic
                /\ q.ret = IF rest = <<>> THEN None ELSE Some(rest[Len(rest)])
                /\ h.op = "iter" =>
                      q.ret = IF Len(data) = 0 THEN None
                              ELSE get(data, start_indexes, Len(data) - 1)

\* C17: on an iterator with front index f and rear index r (neither
\* wrapped), nth(n) returns get(f + n) when f + n <= r and None otherwise,
\* and a following next continues at f + n + 1; nth_back(n) returns
\* get(r - n) when r - n >= f and None otherwise, also when n > r, and a
\* following next_back continues at r - n - 1; neither fails for any n.
C17_NthSkips ==
    (cursor.live /\ status = "ok" /\ Len(data) > 0 /\ Unwrapped) =>
        LET f == cursor.next_index
            r == cursor.next_rev_index
            At_(i) == IF i >= 0 /\ i < Len(data) THEN get(data, start_indexes, i)
                      ELSE None
        IN  \A n \in 0..(Len(data) + 1) :
              /\ \A q \in {Iter_nth(data, start_indexes, f, r, n, debug)} :
                    /\ ~q.panic
                    /\ q.ret = IF f + n <= r THEN At_(f + n) ELSE None
                    /\ f + n <= r =>
                          \A q2 \in {Iter_next(data, start_indexes, q.next_index,
                                                q.next_rev_index, debug)} :
                              /\ ~q2.panic
                              /\ q2.ret = IF f + n + 1 <= r THEN At_(f + n + 1)
                                          ELSE None
              /\ \A q \in {Iter_nth_back(data, start_indexes, f, r, n, debug)} :
                    /\ ~q.panic
                    /\ q.ret = IF r - n >= f THEN At_(r - n) ELSE None
                    /\ r - n >= f =>
                          \A q2 \in {Iter_next_back(data, start_indexes, q.next_index,
                                                     q.next_rev_index, debug)} :
                              /\ ~q2.panic
                              /\ q2.ret = IF r - n - 1 >= f THEN At_(r - n - 1)
                                          ELSE None

\* C21: on every container reached by push, pop, insert, remove, truncate and
\* clear, truncate(len) with len greater than or equal to the current length
\* completes and changes nothing: the backing store and the index table are
\* the same, and so is what every get(i) returns.
C21_TruncateNoEffect ==
    status = "ok" =>
        \A len \in Len(data)..(Len(data) + 2) :
            \A r \in {truncate(data, start_indexes, len, debug)} :
                /\ ~r.panic
                /\ r.data = data
                /\ r.si = start_indexes
                /\ \A i \in 0..Len(data) :
                       get_panics(data, start_indexes, i)
                       \/ ( /\ ~get_panics(r.data, r.si, i)
                            /\ get(r.data, r.si, i) = get(data, start_indexes, i) )

\* truncate(MaxLen) was called on a container of MaxLen elements whose full
\* subarray 2 is rotated and whose last subarray is partial, and left it so
C21_Witness ==
    /\ status = "ok" /\ h.op = "truncate"
    /\ Len(data) = MaxLen /\ Len(start_indexes) = 4
    /\ start_indexes[3] # 0
    /\ \A r \in {truncate(data, start_indexes, MaxLen, debug)} :
           ~r.panic /\ r.data = data /\ r.si = start_indexes

\* the k-th triangular number, the offset of subarray k in the backing store
Triangular(k) == (k * (k + 1)) \div 2

\* the number of subarrays a container of n elements uses: 0 when n = 0,
\* otherwise k + 1 for the k with T(k) <= n - 1 < T(k + 1)
SubarraysInUse(n) ==
    IF n = 0 THEN 0
    ELSE 1 + CHOOSE k \in 0..n : Triangular(k) <= n - 1 /\ n - 1 < Triangular(k + 1)

\* C22: after every call of any sequence of push, pop, insert, remove and
\* clear (and of the sorts) from an empty container, the index table has one
\* entry per subarray in use for the current length, and only the last
\* subarray may be partially filled: it is not empty, and the ones before it
\* are full.
C22_IndexTableLength ==
    /\ Len(start_indexes) = SubarraysInUse(Len(data))
    /\ Len(data) <= Triangular(Len(start_indexes))
    /\ Len(data) > 0 => Len(data) > Triangular(Len(start_indexes) - 1)

\* a removal just emptied the last subarray of a container that had
\* Triangular(3) + 1 elements: the table went back to three entries
C22_Witness ==
    /\ status = "ok" /\ h.op \in {"remove", "pop"}
    /\ Len(data) = Triangular(3) /\ Len(start_indexes) = 3
    /\ Rotated(start_indexes)

\* C23: after every call of any sequence of push, pop, insert, remove and
\* the sorts (and clear) from an empty container, the pivot offset of
\* subarray k is between 0 and k, and the one of the last subarray is
\* smaller than the number of elements that subarray holds.
C23_PivotOffsetsInRange ==
    /\ \A k \in 0..(Len(start_indexes) - 1) :
           0 <= At(start_indexes, k) /\ At(start_indexes, k) <= k
    /\ Len(start_indexes) > 0 =>
           At(start_indexes, Len(start_indexes) - 1)
               < Len(data) - Triangular(Len(start_indexes) - 1)

\* subarrays 1 and 2 both have their pivot at their last slot, and a
\* removal at the front makes both wrap to 0
C23_Witness ==
    /\ status = "ok" /\ h.op \in {"insert", "remove"}
    /\ Len(data) = MaxLen /\ Len(start_indexes) = 4
    /\ start_indexes[2] = 1 /\ start_indexes[3] = 2
    /\ \A r \in {remove(data, start_indexes, 0, debug)} :
           ~r.panic /\ r.si = <<0, 0, 0>>

\* the slot the logical position p of the current container maps to:
\* T(k) + (pivot_offset[k] + (p - T(k))) mod subarray_len(k), with k the
\* subarray of p, and subarray_len(k) = k + 1 but for the last subarray,
\* which holds the remaining len - T(k) elements
Physical(p) ==
    LET k == SubarraysInUse(p + 1) - 1
        subarray_len == IF k = SubarraysInUse(Len(data)) - 1
                        THEN Len(data) - Triangular(k) ELSE k + 1
    IN  Triangular(k) + ((At(start_indexes, k) + (p - Triangular(k))) % subarray_len)

\* C24: in every state reachable by push, pop, insert, remove, append, extend
\* and the sorts, the map from logical positions to slots, which is the one
\* get_real_index computes, sends [0, len) one-to-one onto [0, len).
C24_PhysicalIsBijection ==
    /\ \A p \in 0..(Len(data) - 1) :
           /\ ~get_real_index_panics(data, start_indexes, p)
           /\ get_real_index(data, start_indexes, p) = Physical(p)
           /\ 0 <= Physical(p) /\ Physical(p) < Len(data)
    /\ \A p, q \in 0..(Len(data) - 1) : Physical(p) = Physical(q) => p = q
    /\ \A slot \in 0..(Len(data) - 1) :
           \E p \in 0..(Len(data) - 1) : Physical(p) = slot

\* an append or extend gave a container of MaxLen elements with two rotated
\* subarrays, in which five logical positions are not at their own slot
C24_Witness ==
    /\ status = "ok" /\ h.op \in {"append", "extend"}
    /\ Len(data) = MaxLen
    /\ start_indexes[2] # 0 /\ start_indexes[3] # 0
    /\ Cardinality({p \in 0..(Len(data) - 1) : Physical(p) # p}) = 5

\* n is a triangular number (0 included)
IsTriangular(n) == \E k \in 0..n : Triangular(k) = n

\* C25: on every container reached by push, pop, insert and remove (and
\* clear and the sorts), an insert or push at a length that is a triangular
\* number gives the index table exactly one more entry, of value 0, at its
\* end, and any other insert or push leaves its length as it is; a remove
\* or pop that leaves a length that is a triangular number takes exactly one
\* entry from the end of the table, and any other remove or pop leaves its
\* length as it is.
C25_IndexTableLifecycle ==
    status = "ok" =>
        /\ \A index \in 0..Len(data), v \in Values :
               \A r \in {insert(data, start_indexes, index, v, debug),
                         push(data, start_indexes, v, debug)} :
                   /\ ~r.panic
                   /\ Len(r.data) = Len(data) + 1
                   /\ IF IsTriangular(Len(data))
                      THEN /\ Len(r.si) = Len(start_indexes) + 1
                           /\ At(r.si, Len(r.si) - 1) = 0
                      ELSE Len(r.si) = Len(start_indexes)
        /\ \A index \in 0..(Len(data) - 1) :
               \A r \in {remove(data, start_indexes, index, debug)} :
                   /\ ~r.panic
                   /\ Len(r.data) = Len(data) - 1
                   /\ Len(r.si) = IF IsTriangular(Len(r.data))
                                  THEN Len(start_indexes) - 1
                                  ELSE Len(start_indexes)
        /\ \A r \in {pop(data, start_indexes, debug)} :
               /\ ~r.panic
               /\ Len(r.si) = IF Len(data) > 0 /\ IsTriangular(Len(r.data))
                              THEN Len(start_indexes) - 1
                              ELSE Len(start_indexes)

\* a removal left Triangular(3) elements and three entries, with a rotated
\* subarray; an insert at the front then cascades through the full
\* subarrays and opens subarray 3 with a fourth entry, 0
C25_Witness ==
    /\ status = "ok" /\ h.op = "remove"
    /\ Len(data) = Triangular(3) /\ Len(start_indexes) = 3
    /\ start_indexes[3] # 0
    /\ \A r \in {insert(data, start_indexes, 0, 1, debug)} :
           ~r.panic /\ Len(r.si) = 4 /\ r.si[4] = 0 /\ Len(r.data) = MaxLen

\* C26: in every state reached by push, pop, insert and remove (and clear
\* and the sorts), a last subarray that is not full has pivot offset 0;
\* every remove that leaves the last subarray in use leaves it with pivot
\* offset 0, even when it was full and rotated, and no insert into the
\* partial last subarray fails.
C26_PartialLastUnrotated ==
    /\ (Len(start_indexes) > 0 /\ ~is_last_subarray_full(data, start_indexes))
           => At(start_indexes, Len(start_indexes) - 1) = 0
    /\ status = "ok" =>
           /\ \A index \in 0..(Len(data) - 1) :
                  \A r \in {remove(data, start_indexes, index, debug)} :
                      /\ ~r.panic
                      /\ Len(r.si) = Len(start_indexes)
                             => At(r.si, Len(r.si) - 1) = 0
           /\ \A index \in 0..Len(data), v \in Values :
                  ~insert(data, start_indexes, index, v, debug).panic

\* a removal emptied subarray 3 and left subarray 2 as the last one, full
\* and rotated; removing the last element un-rotates it
C26_Witness ==
    /\ status = "ok" /\ h.op \in {"remove", "pop"}
    /\ Len(data) = Triangular(3) /\ start_indexes[3] # 0
    /\ \A r \in {remove(data, start_indexes, Len(data) - 1, debug)} :
           /\ ~r.panic /\ Len(r.si) = 3 /\ r.si[3] = 0
           /\ Logical(r.data, r.si) = Take(Logical(data, start_indexes), Len(data) - 1)

\* the entries r_si has beyond those of s are all 0
NewEntriesZero(s, r_si) ==
    \A k \in Len(s)..(Len(r_si) - 1) : At(r_si, k) = 0

\* C27: on every container with one index-table entry per subarray in use,
\* append and extend complete, leave one entry per subarray in use for the
\* new length, and every entry they add is 0; with an empty container and an
\* empty input they leave the container empty with an empty index table.
C27_BulkIndexTable ==
    (status = "ok" /\ Len(start_indexes) = SubarraysInUse(Len(data))) =>
        /\ \A iter \in SeqsUpTo(MaxExtend) :
               \A r \in {extend(data, start_indexes, iter, debug)} :
                   /\ ~r.panic
                   /\ Len(r.data) = Len(data) + Len(iter)
                   /\ Len(r.si) = SubarraysInUse(Len(r.data))
                   /\ NewEntriesZero(start_indexes, r.si)
        /\ \A o \in Others :
               \A r \in {append(data, start_indexes, o.data, o.si, debug)} :
                   /\ ~r.panic
                   /\ Len(r.data) = Len(data) + Len(o.data)
                   /\ Len(r.si) = SubarraysInUse(Len(r.data))
                   /\ NewEntriesZero(start_indexes, r.si)

\* C28: creating an iterator on an empty container does not fail, and every
\* next and next_back on it returns None; on a non-empty container driven
\* with next_back alone no call fails, and once next_back has yielded every
\* logical position, next returns None.
C28_IterBoundaries ==
    (cursor.live /\ ~cursor.skipped /\ h.op \in {"iter", "next", "next_back"}) =>
        /\ Len(data) = 0 =>
               /\ status = "ok"
               /\ \A k \in 1..Len(cursor.outf) : cursor.outf[k] = None
               /\ \A k \in 1..Len(cursor.outb) : cursor.outb[k] = None
        /\ (Len(data) > 0 /\ cursor.outf = <<>>) => status = "ok"
        /\ (Len(data) > 0 /\ Len(Yielded(cursor.outb)) >= Len(data)) =>
               \A k \in 1..Len(cursor.outf) : cursor.outf[k] = None

\* the subarray of the slot that insert(index, _) or remove(index) targets
TargetSubarray(index) ==
    SubarraysInUse((IF index < Len(data) THEN Physical(index) ELSE Len(data)) + 1) - 1

\* the slots of the full subarray j
SlotsOf(j) == Triangular(j)..(Triangular(j + 1) - 1)

\* the contents of the full subarray j of the store d, in logical order
SubarrayLogical(d, s, j) ==
    [i \in 1..(j + 1) |-> At(d, Triangular(j) + ((At(s, j) + i - 1) % (j + 1)))]

\* the slots of subarray j that d and e do not agree on
SlotsWritten(d, e, j) == {slot \in SlotsOf(j) : At(d, slot) # At(e, slot)}

\* the label of the element insert is given, different from every slot label
NewLabel == Len(data)

\* C29: when insert targets a full subarray k that is not the last one,
\* every following full subarray j has exactly one slot written, the slot
\* of its former logical-last element, which becomes its pivot (the pivot
\* moves back by one modulo j + 1), and its logical order is the element
\* pushed out of subarray j - 1 followed by its former elements but the
\* last; when remove targets a subarray k that is not the last one, every
\* following subarray j but the last has exactly one slot written, its
\* former pivot slot, its pivot moves forward by one modulo j + 1, and its
\* logical order is its former elements but the first, followed by the
\* former logical-first of subarray j + 1.  (Slots carry distinct labels.)
C29_CascadeIsBoundaryOnly ==
    status = "ok" =>
        \A index \in 0..(Len(data) - 1) :
            \A k \in {TargetSubarray(index)} :
                k < Len(start_indexes) - 1 =>
                    /\ \A r \in {insert(Slots, start_indexes, index, NewLabel, debug)} :
                           /\ ~r.panic
                           /\ \A j \in (k + 1)..(Len(start_indexes) - 1) :
                                  Triangular(j + 1) <= Len(data) =>
                                      /\ At(r.si, j) = (At(start_indexes, j) + j) % (j + 1)
                                      /\ SlotsWritten(Slots, r.data, j)
                                            = {Triangular(j) + At(r.si, j)}
                                      /\ SubarrayLogical(r.data, r.si, j)
                                            = << SubarrayLogical(Slots, start_indexes, j - 1)[j] >>
                                              \o SubSeq(SubarrayLogical(Slots, start_indexes, j), 1, j)
                    /\ \A r \in {remove(Slots, start_indexes, index, debug)} :
                           /\ ~r.panic
                           /\ \A j \in (k + 1)..(Len(start_indexes) - 2) :
                                  /\ At(r.si, j) = (At(start_indexes, j) + 1) % (j + 1)
                                  /\ SlotsWritten(Slots, r.data, j)
                                        = {Triangular(j) + At(start_indexes, j)}
                                  /\ SubarrayLogical(r.data, r.si, j)
                                        = Tail(SubarrayLogical(Slots, start_indexes, j))
                                          \o << At(Slots, Triangular(j + 1)
                                                          + At(start_indexes, j + 1)) >>

\* a container of MaxLen elements whose subarrays 1 and 2 are rotated:
\* insert and remove at position 0 both cascade through them
C29_Witness ==
    /\ status = "ok" /\ h.op \in {"insert", "remove"}
    /\ Len(data) = MaxLen
    /\ start_indexes[2] # 0 /\ start_indexes[3] # 0
    /\ TargetSubarray(0) = 0
    /\ \A r \in {insert(Slots, start_indexes, 0, NewLabel, debug)} :
           ~r.panic /\ r.si[2] # start_indexes[2] /\ r.si[3] # start_indexes[3]
    /\ \A r \in {remove(Slots, start_indexes, 0, debug)} :
           ~r.panic /\ r.si[2] # start_indexes[2] /\ r.si[3] # start_indexes[3]

\* C30: insert(index, v) and remove(index) whose target is in subarray k
\* leave every slot and the pivot offset of every subarray before k as they
\* were.  (Slots carry distinct labels.)
C30_EarlierSubarraysUntouched ==
    status = "ok" =>
        /\ \A index \in 0..Len(data) :
               \A r \in {insert(Slots, start_indexes, index, NewLabel, debug)} :
                   /\ ~r.panic
                   /\ \A j \in 0..(TargetSubarray(index) - 1) :
                          /\ SlotsWritten(Slots, r.data, j) = {}
                          /\ At(r.si, j) = At(start_indexes, j)
        /\ \A index \in 0..(Len(data) - 1) :
               \A r \in {remove(Slots, start_indexes, index, debug)} :
                   /\ ~r.panic
                   /\ \A j \in 0..(TargetSubarray(index) - 1) :
                          /\ SlotsWritten(Slots, r.data, j) = {}
                          /\ At(r.si, j) = At(start_indexes, j)

\* a container of MaxLen elements whose subarrays 1 and 2 are rotated:
\* insert and remove at logical position 3, in subarray 2, change subarray 2
\* and leave subarrays 0 and 1 alone
C30_Witness ==
    /\ status = "ok" /\ h.op \in {"insert", "remove"}
    /\ Len(data) = MaxLen
    /\ start_indexes[2] # 0 /\ start_indexes[3] # 0
    /\ TargetSubarray(3) = 2
    /\ \A r \in {insert(Slots, start_indexes, 3, NewLabel, debug)} :
           /\ ~r.panic /\ SlotsWritten(Slots, r.data, 2) # {}
           /\ SubSeq(r.data, 1, 3) = SubSeq(Slots, 1, 3)
           /\ SubSeq(r.si, 1, 2) = SubSeq(start_indexes, 1, 2)
    /\ \A r \in {remove(Slots, start_indexes, 3, debug)} :
           /\ ~r.panic /\ SlotsWritten(Slots, r.data, 2) # {}
           /\ SubSeq(r.data, 1, 3) = SubSeq(Slots, 1, 3)
           /\ SubSeq(r.si, 1, 2) = SubSeq(start_indexes, 1, 2)

\* the slots of the full subarray k that hold, in the store e, the label of
\* another slot of subarray k: the slots an element was shifted into
ShiftedInside(e, k) ==
    {slot \in SlotsOf(k) : At(e, slot) # slot /\ At(e, slot) \in SlotsOf(k)}

\* the subarray k is full
IsFull(k) == k < Len(start_indexes) /\ Triangular(k + 1) <= Len(data)

\* the number of elements of the full subarray k that are logically before
\* the one at logical position index
LogicallyBefore(index, k) ==
    (Physical(index) - Triangular(k) + (k + 1) - At(start_indexes, k)) % (k + 1)

\* the slot of logical position index is in the physical tail of a rotated
\* subarray k, that is at or after its pivot slot
InPhysicalTail(index, k) ==
    At(start_indexes, k) > 0
        /\ Physical(index) - Triangular(k) >= At(start_indexes, k)

\* C31, as the code does it: the rotate-insert on a full subarray of k + 1
\* slots, and the rotate-remove on a subarray that is not the last, shift
\* the range between the pivot slot and the target slot that does not wrap
\* around the end of the subarray: the elements logically before the target
\* when the target slot is at or after the pivot slot of a rotated
\* subarray, and otherwise the elements logically after it (for insert: from
\* it on, but the last).  That is at most k slots, and it is not always the
\* shorter range.  (Slots carry distinct labels.)
C31_ShiftsUnwrappedRange ==
    status = "ok" =>
        \A index \in 0..(Len(data) - 1) :
            \A k \in {TargetSubarray(index)} :
                /\ IsFull(k) =>
                       \A r \in {insert(Slots, start_indexes, index, NewLabel, debug)} :
                           /\ ~r.panic
                           /\ Cardinality(ShiftedInside(r.data, k))
                                 = IF InPhysicalTail(index, k)
                                   THEN LogicallyBefore(index, k)
                                   ELSE k - LogicallyBefore(index, k)
                           /\ Cardinality(ShiftedInside(r.data, k)) <= k
                /\ k < Len(start_indexes) - 1 =>
                       \A r \in {remove(Slots, start_indexes, index, debug)} :
                           /\ ~r.panic
                           /\ Cardinality(ShiftedInside(r.data, k))
                                 = IF InPhysicalTail(index, k)
                                   THEN LogicallyBefore(index, k)
                                   ELSE k - LogicallyBefore(index, k)
                           /\ Cardinality(ShiftedInside(r.data, k)) <= k

\* C31, as stated: the rotate-insert on a full subarray, and the
\* rotate-remove on a subarray that is not the last, move no more slots
\* inside the target subarray than half its size.
C31_AsStated ==
    status = "ok" =>
        \A index \in 0..(Len(data) - 1) :
            \A k \in {TargetSubarray(index)} :
                /\ IsFull(k) =>
                       \A r \in {insert(Slots, start_indexes, index, NewLabel, debug)} :
                           2 * Cardinality(ShiftedInside(r.data, k)) <= k + 1
                /\ k < Len(start_indexes) - 1 =>
                       \A r \in {remove(Slots, start_indexes, index, debug)} :
                           2 * Cardinality(ShiftedInside(r.data, k)) <= k + 1

\* a container of MaxLen elements with subarray 1 rotated and subarray 2
\* not: insert and remove at the logical first of subarray 2 shift both
\* other slots of it, two of three, and the target of logical position 1 is
\* at the pivot slot of subarray 1, where nothing has to be shifted
C31_Witness ==
    /\ status = "ok" /\ h.op \in {"insert", "remove"}
    /\ Len(data) = MaxLen /\ start_indexes[2] = 1 /\ start_indexes[3] = 0
    /\ TargetSubarray(3) = 2 /\ ~InPhysicalTail(3, 2) /\ LogicallyBefore(3, 2) = 0
    /\ Cardinality(ShiftedInside(
            insert(Slots, start_indexes, 3, NewLabel, debug).data, 2)) = 2
    /\ Cardinality(ShiftedInside(
            remove(Slots, start_indexes, 3, debug).data, 2)) = 2
    /\ TargetSubarray(1) = 1 /\ InPhysicalTail(1, 1)
    /\ ShiftedInside(insert(Slots, start_indexes, 1, NewLabel, debug).data, 1) = {}

\* C32: over any traversal of any reachable container with iter_mut and
\* next, no call fails, the k-th reference handed out points to the slot of
\* logical position k - 1, which is a slot no earlier reference points to,
\* at most len references are handed out and exactly len once next has
\* returned None, and next returns None from then on.
C32_IterMutNeverAliases ==
    (cursor.live /\ h.op \in {"iter_mut", "next_mut"}) =>
        LET F == Yielded(cursor.outf)
        IN  /\ status = "ok"
            /\ Len(F) <= Len(data)
            /\ \A k \in 1..Len(F) : F[k] = Some(Physical(k - 1))
            /\ \A k, l \in 1..Len(F) : F[k] = F[l] => k = l
            /\ cursor.ended => Len(F) = Len(data)
            /\ cursor.ended => ULt(cursor.next_rev_index, cursor.next_index)
            /\ ~cursor.resumed

\* C33: for every position p, get_subarray_idx_from_array_idx(p) is the k
\* with T(k) <= p < T(k + 1), and for every subarray index k,
\* get_array_idx_from_subarray_idx(k) is T(k) = k(k + 1)/2.
C33_IndexMaths ==
    /\ h.op = "get_subarray_idx_from_array_idx" =>
           /\ Triangular(h.ret) <= h.arg
           /\ h.arg < Triangular(h.ret + 1)
    /\ h.op = "get_array_idx_from_subarray_idx" =>
           h.ret = Triangular(h.arg)

\* C34: a container reached by push, pop, insert and remove is equal to
\* another one, whatever the pivot offsets and the backing stores of the
\* two, exactly when both have the same length and the same element at
\* every logical position, which is when they convert to the same plain
\* sequence; the comparison does not fail and gives the same answer with
\* the two sides exchanged.
C34_EqIsLogical ==
    status = "ok" =>
        \A o \in Others :
            \A r \in {eq(data, start_indexes, o.data, o.si)} :
                /\ ~r.panic
                /\ r.ret <=> ( /\ Len(data) = Len(o.data)
                               /\ \A i \in 0..(Len(data) - 1) :
                                      get(data, start_indexes, i) = get(o.data, o.si, i) )
                /\ r.ret <=> into(data, start_indexes).vec = into(o.data, o.si).vec
                /\ eq(o.data, o.si, data, start_indexes) = r

\* a rotated container has been compared; it is equal to one with another
\* backing store and other pivot offsets, and different from one with the
\* same backing store
C34_Witness ==
    /\ status = "ok" /\ h.op = "eq"
    /\ Rotated(start_indexes)
    /\ \E o \in Others :
           /\ o.data # data /\ o.si # start_indexes
           /\ eq(data, start_indexes, o.data, o.si).ret
    /\ \E o \in Others :
           /\ o.data = data /\ o.si # start_indexes
           /\ ~eq(data, start_indexes, o.data, o.si).ret

====
